---- MODULE Spec2Model ----
(***************************************************************************)
(* Model of claude_code_transcripts.generate_html: the session is loaded,  *)
(* segmented into conversations, rendered into pages of PROMPTS_PER_PAGE   *)
(* conversations, analysed, and summarised by a timeline index.            *)
(*                                                                         *)
(* Data abstraction.                                                       *)
(*  - A prompt string (user message content) is a sequence of tokens: SP   *)
(*    is a run of whitespace, W an ordinary word, HOOK_MARKER the literal  *)
(*    "Stop hook feedback:".                                               *)
(*  - The text of a text block is a record [tag, len]: an identity and its *)
(*    number of characters.                                                *)
(*  - The string content of a tool_result is a sequence of segments, each  *)
(*    a stretch of literal text or one COMMIT_PATTERN match.               *)
(*  - A timestamp is a natural number; the order of the naturals stands    *)
(*    for the lexicographic order of the timestamp strings.                *)
(*  - A JSON string is the record [json |-> value] of the value it encodes.*)
(*  - Rendered HTML is a sequence of fragments; the empty string is <<>>.  *)
(*  - A JSON object is a record of its keys; a line of a .jsonl file is   *)
(*    blank, no JSON, JSON that is no object, or the JSON of an object.    *)
(*  - The texts get_session_summary cuts are sequences of characters.      *)
(*                                                                         *)
(* Besides the generation run the module models single calls of            *)
(* format_tool_stats, get_session_summary and render_content_block.        *)
(***************************************************************************)
EXTENDS Integers, Sequences, FiniteSets, TLC

VARIABLES
    session,            \* the session file: the loglines of a .json file,
                        \* the lines of a .jsonl file
    suffix,             \* the extension of the session file
    call,               \* a call of a function of the module: its name,
                        \* arguments and, once it has returned, its result
    github_repo,        \* the github_repo argument of the generation run
    file_state,         \* whether the session file exists and parses
    output_dir,         \* the output directory: present, absent, or absent
                        \* together with its parent
    runs,               \* the number of generation runs started
    cli,                \* the command of the command line being executed
    pc,                 \* position of the generation run
    module_github_repo, \* the module-level _github_repo
    loglines,           \* data.get("loglines", [])
    conversations,      \* list of conversations built so far
    current_conv,       \* <<>> for None, <<conv>> for an open conversation
    entry_idx,          \* number of loglines consumed by the segmentation loop
    page_files,         \* output directory: page number -> page content
    stats_total,        \* totals computed by the statistics loop
    all_commits,        \* commits of the whole session, in discovery order
    timeline_items,     \* (timestamp, kind, item) before sorting
    prompt_num,         \* number of prompt entries added to the timeline
    page_num,           \* next page of the page loop
    index_file          \* <<>> while absent, <<index content>> once written

vars == <<session, suffix, call, github_repo, file_state, output_dir, runs, cli, pc, module_github_repo, loglines, conversations,
          current_conv, entry_idx, page_files, stats_total, all_commits,
          timeline_items, prompt_num, page_num, index_file>>

\* what a generation run is given and never changes after its first step
env_vars == <<github_repo, file_state, runs, cli>>

----------------------------------------------------------------------------
(* Program constants *)

PROMPTS_PER_PAGE == 5

LONG_TEXT_THRESHOLD == 300

HOOK_MARKER == "Stop hook feedback:"

SP == " "

W == "w"

\* a stretch of text that opens with "{" and closes with "}"
OBJ == "{}"

None == "None"

----------------------------------------------------------------------------
(* Generic sequence helpers *)

RECURSIVE Flatten(_)
Flatten(ss) ==
    IF ss = <<>> THEN <<>> ELSE Head(ss) \o Flatten(Tail(ss))

Range(s) == {s[i] : i \in DOMAIN s}

Min(a, b) == IF a < b THEN a ELSE b

----------------------------------------------------------------------------
(* Strings *)

RECURSIVE lstrip(_)
lstrip(s) ==
    IF s # <<>> /\ Head(s) = SP THEN lstrip(Tail(s)) ELSE s

RECURSIVE rstrip(_)
rstrip(s) ==
    IF s # <<>> /\ s[Len(s)] = SP THEN rstrip(SubSeq(s, 1, Len(s) - 1)) ELSE s

strip(s) == rstrip(lstrip(s))

startswith(s, prefix) == s # <<>> /\ Head(s) = prefix

json_dumps(value) == [json |-> value]

json_loads(text) == text.json

----------------------------------------------------------------------------
(* Log entries.  message is EmptyMessage when the entry has no message or  *)
(* an empty one; otherwise it carries a content that is missing, a string  *)
(* or a list of blocks.                                                    *)

EmptyMessage == [empty |-> TRUE, ckind |-> "missing", str |-> <<>>, list |-> <<>>]

StrMessage(s) == [empty |-> FALSE, ckind |-> "str", str |-> s, list |-> <<>>]

ListMessage(bs) == [empty |-> FALSE, ckind |-> "list", str |-> <<>>, list |-> bs]

NoContentMessage == [empty |-> FALSE, ckind |-> "missing", str |-> <<>>, list |-> <<>>]

LogEntry(t, ts, compact, m) ==
    [type |-> t, timestamp |-> ts, isCompactSummary |-> compact, message |-> m]

TextBlock(tag, n) == [type |-> "text", text |-> [tag |-> tag, len |-> n]]

ToolUseBlock(name, todos) == [type |-> "tool_use", name |-> name, todos |-> todos]

\* content of a tool_result: a string (its segments) or structured data
ToolResultBlock(isstr, segs, is_error) ==
    [type |-> "tool_result", content |-> [isstr |-> isstr, segs |-> segs],
     is_error |-> is_error]

\* a stretch of literal text; repo is the repository named by a
\* github.com/<owner>/<repo>/pull/new/ link inside it, None without one
Lit(blank, repo) == [seg |-> "lit", blank |-> blank, hash |-> None, repo |-> repo]

\* one match of COMMIT_PATTERN
CommitSeg(h) == [seg |-> "commit", blank |-> FALSE, hash |-> h, repo |-> None]

----------------------------------------------------------------------------
(* Segmentation loop of generate_html *)

bool(x) == x = TRUE

msg_tuple(entry) ==
    <<entry.type, json_dumps(entry.message), entry.timestamp>>

\* is_user_prompt that also accepts a non-empty list of blocks
is_user_prompt_any_content(entry) ==
    /\ entry.type = "user"
    /\ \/ entry.message.ckind = "str" /\ strip(entry.message.str) # <<>>
       \/ entry.message.ckind = "list" /\ entry.message.list # <<>>

is_user_prompt(entry) ==
    /\ entry.type = "user"
    /\ entry.message.ckind = "str"
    /\ strip(entry.message.str) # <<>>

\* new_conv that never marks a continuation
new_conv_plain(entry) ==
    [user_text |-> entry.message.str,
     timestamp |-> entry.timestamp,
     messages |-> <<msg_tuple(entry)>>,
     is_continuation |-> FALSE]

new_conv(entry) ==
    [user_text |-> entry.message.str,
     timestamp |-> entry.timestamp,
     messages |-> <<msg_tuple(entry)>>,
     is_continuation |-> bool(entry.isCompactSummary)]

\* segment_entry that forgets the open conversation when a prompt arrives
segment_entry_drop(st, entry) ==
    IF entry.message.empty THEN st
    ELSE IF is_user_prompt(entry)
    THEN [convs |-> st.convs, cur |-> <<new_conv(entry)>>]
    ELSE IF st.cur # <<>>
    THEN [st EXCEPT !.cur =
            <<[st.cur[1] EXCEPT !.messages = Append(@, msg_tuple(entry))]>>]
    ELSE st

\* one iteration of "for entry in loglines": st = [convs, cur]
segment_entry(st, entry) ==
    IF entry.message.empty THEN st
    ELSE IF is_user_prompt(entry)
    THEN [convs |-> IF st.cur # <<>> THEN st.convs \o st.cur ELSE st.convs,
          cur |-> <<new_conv(entry)>>]
    ELSE IF st.cur # <<>>
    THEN [st EXCEPT !.cur =
            <<[st.cur[1] EXCEPT !.messages = Append(@, msg_tuple(entry))]>>]
    ELSE st

\* total_pages_of that rounds down
total_pages_of_floor(total_convs) == total_convs \div PROMPTS_PER_PAGE

total_pages_of(total_convs) ==
    (total_convs + PROMPTS_PER_PAGE - 1) \div PROMPTS_PER_PAGE

----------------------------------------------------------------------------
(* Rendering.  The Jinja macros of templates/macros.html wrap their        *)
(* arguments in markup: macro(name, args) is the fragment they produce.    *)

macro(name, args) == <<[frag |-> name, body |-> args]>>

\* str.strip() of rendered HTML: every fragment holds markup, so stripping
\* removes no fragment
html_strip(content_html) == content_html

render_markdown_text(text) ==
    IF text = <<>> THEN <<>> ELSE <<[frag |-> "markdown", body |-> text]>>

render_markdown_block_text(text) ==
    IF text.len = 0 THEN <<>> ELSE <<[frag |-> "markdown", body |-> text]>>

format_json(obj) == <<[frag |-> "pre-json", body |-> obj]>>

is_json_like(text) ==
    LET t == strip(text)
    IN  t # <<>> /\ Head(t) = OBJ /\ t[Len(t)] = OBJ

\* render_todo_write without the test "if not todos"
render_todo_write_always(block) == macro("todo_list", block.todos)

render_todo_write(block) ==
    IF block.todos = <<>> THEN <<>> ELSE macro("todo_list", block.todos)

all_blank(run) == \A k \in DOMAIN run : run[k].blank

\* pre_if_text without the test "if before:"
pre_always(run) == <<[frag |-> "pre", body |-> run]>>

pre_if_text(run) ==
    IF all_blank(run) THEN <<>> ELSE <<[frag |-> "pre", body |-> run]>>

RECURSIVE commit_parts(_, _, _)
\* the loop over commits_found: run is content[last_end : match.start()]
commit_parts(segs, run, repo) ==
    IF segs = <<>> THEN pre_if_text(run)
    ELSE IF Head(segs).seg = "commit"
    THEN pre_if_text(run)
         \o macro("commit_card", <<Head(segs).hash, repo>>)
         \o commit_parts(Tail(segs), <<>>, repo)
    ELSE commit_parts(Tail(segs), Append(run, Head(segs)), repo)

commits_found(segs) == SelectSeq(segs, LAMBDA g : g.seg = "commit")

render_content_block(block, repo) ==
    CASE block.type = "thinking" ->
            macro("thinking", render_markdown_block_text(block.text))
      [] block.type = "text" ->
            macro("assistant_text", render_markdown_block_text(block.text))
      [] block.type = "tool_use" ->
            IF block.name = "TodoWrite" THEN render_todo_write(block)
            ELSE IF block.name = "Write" THEN macro("write_tool", block.name)
            ELSE IF block.name = "Edit" THEN macro("edit_tool", block.name)
            ELSE IF block.name = "Bash" THEN macro("bash_tool", block.name)
            ELSE macro("tool_use", block.name)
      [] block.type = "tool_result" ->
            LET content == block.content
                content_html ==
                    IF content.isstr
                    THEN IF commits_found(content.segs) # <<>>
                         THEN commit_parts(content.segs, <<>>, repo)
                         ELSE <<[frag |-> "pre", body |-> content.segs]>>
                    ELSE format_json(content.segs)
            IN  macro("tool_result", <<content_html, block.is_error>>)
      [] OTHER -> format_json(block)

RECURSIVE render_blocks(_, _)
render_blocks(blocks, repo) ==
    IF blocks = <<>> THEN <<>>
    ELSE render_content_block(Head(blocks), repo) \o render_blocks(Tail(blocks), repo)

render_user_message_content(message_data, repo) ==
    IF message_data.ckind = "list" THEN render_blocks(message_data.list, repo)
    ELSE IF is_json_like(message_data.str)
    THEN macro("user_content", format_json(message_data.str))
    ELSE macro("user_content", render_markdown_text(message_data.str))

render_assistant_message(message_data, repo) ==
    IF message_data.ckind = "str"
    THEN <<[frag |-> "p", body |-> message_data.str]>>
    ELSE render_blocks(message_data.list, repo)

is_tool_result_message(message_data) ==
    /\ message_data.ckind = "list"
    /\ message_data.list # <<>>
    /\ \A k \in DOMAIN message_data.list : message_data.list[k].type = "tool_result"

make_msg_id(timestamp) == [msg |-> timestamp]

render_message(log_type, message_json, timestamp, repo) ==
    LET message_data == json_loads(message_json)
        content_html ==
            IF log_type = "user" THEN render_user_message_content(message_data, repo)
            ELSE render_assistant_message(message_data, repo)
        role == IF log_type # "user" THEN "assistant"
                ELSE IF is_tool_result_message(message_data) THEN "tool-reply"
                ELSE "user"
    IN  IF log_type \notin {"user", "assistant"} THEN <<>>
        ELSE IF html_strip(content_html) = <<>> THEN <<>>
        ELSE macro("message", <<role, make_msg_id(timestamp), timestamp, content_html>>)

----------------------------------------------------------------------------
(* Page loop of generate_html.  Every element of messages_html records,    *)
(* next to its html, the conversation (0-based) and the message (1-based)  *)
(* it renders; the two indices are history annotations only.               *)

continuation_details(msg_html) == macro("details-continuation", msg_html)

RECURSIVE render_conv_messages_keep_first(_, _, _, _, _)
\* render_conv_messages that never clears is_first
render_conv_messages_keep_first(conv, ci, k, is_first, repo) ==
    IF k > Len(conv.messages) THEN <<>>
    ELSE LET m == conv.messages[k]
             msg_html == render_message(m[1], m[2], m[3], repo)
             out == IF msg_html = <<>> THEN <<>>
                    ELSE <<[html |-> IF is_first /\ conv.is_continuation
                                     THEN continuation_details(msg_html)
                                     ELSE msg_html,
                            conv |-> ci, msg |-> k]>>
         IN  out \o render_conv_messages_keep_first(conv, ci, k + 1, is_first, repo)

RECURSIVE render_conv_messages(_, _, _, _, _)
\* "for log_type, message_json, timestamp in conv['messages']" from message k
render_conv_messages(conv, ci, k, is_first, repo) ==
    IF k > Len(conv.messages) THEN <<>>
    ELSE LET m == conv.messages[k]
             msg_html == render_message(m[1], m[2], m[3], repo)
             out == IF msg_html = <<>> THEN <<>>
                    ELSE <<[html |-> IF is_first /\ conv.is_continuation
                                     THEN continuation_details(msg_html)
                                     ELSE msg_html,
                            conv |-> ci, msg |-> k]>>
         IN  out \o render_conv_messages(conv, ci, k + 1, FALSE, repo)

page_start_idx(page) == (page - 1) * PROMPTS_PER_PAGE

page_end_idx(page, total_convs) ==
    Min(page_start_idx(page) + PROMPTS_PER_PAGE, total_convs)

RECURSIVE render_page_convs(_, _, _, _)
\* "for conv in page_convs" for the conversations with 0-based index in lo..hi-1
render_page_convs(convs, lo, hi, repo) ==
    IF lo >= hi THEN <<>>
    ELSE render_conv_messages(convs[lo + 1], lo, 1, TRUE, repo)
         \o render_page_convs(convs, lo + 1, hi, repo)

page_content(convs, page, total_pages, repo) ==
    [page_num |-> page,
     total_pages |-> total_pages,
     messages_html |-> render_page_convs(convs, page_start_idx(page),
                                         page_end_idx(page, Len(convs)), repo)]

----------------------------------------------------------------------------
(* analyze_conversation.  tool_counts is the dict in insertion order.      *)

dict_incr(d, name) ==
    IF \E k \in DOMAIN d : d[k].name = name
    THEN [k \in DOMAIN d |->
            IF d[k].name = name THEN [d[k] EXCEPT !.count = @ + 1] ELSE d[k]]
    ELSE Append(d, [name |-> name, count |-> 1])

EmptyStats == [tool_counts |-> <<>>, long_texts |-> <<>>, commits |-> <<>>]

RECURSIVE commits_of_first(_, _)
\* commits_of that records the first match only
commits_of_first(segs, timestamp) ==
    IF segs = <<>> THEN <<>>
    ELSE IF Head(segs).seg = "commit"
    THEN <<[hash |-> Head(segs).hash, timestamp |-> timestamp]>>
    ELSE commits_of_first(Tail(segs), timestamp)

RECURSIVE commits_of(_, _)
\* "for match in COMMIT_PATTERN.finditer(result_content)"
commits_of(segs, timestamp) ==
    IF segs = <<>> THEN <<>>
    ELSE (IF Head(segs).seg = "commit"
          THEN <<[hash |-> Head(segs).hash, timestamp |-> timestamp]>>
          ELSE <<>>)
         \o commits_of(Tail(segs), timestamp)

\* is_long_text with a strict comparison
is_long_text_strict(text) == text.len > LONG_TEXT_THRESHOLD

is_long_text(text) == text.len >= LONG_TEXT_THRESHOLD

analyze_block(acc, block, timestamp) ==
    CASE block.type = "tool_use" ->
            [acc EXCEPT !.tool_counts = dict_incr(@, block.name)]
      [] block.type = "tool_result" ->
            IF block.content.isstr
            THEN [acc EXCEPT !.commits = @ \o commits_of(block.content.segs, timestamp)]
            ELSE acc
      [] block.type = "text" ->
            IF is_long_text(block.text)
            THEN [acc EXCEPT !.long_texts = Append(@, block.text)]
            ELSE acc
      [] OTHER -> acc

RECURSIVE analyze_blocks(_, _, _)
analyze_blocks(acc, blocks, timestamp) ==
    IF blocks = <<>> THEN acc
    ELSE analyze_blocks(analyze_block(acc, Head(blocks), timestamp),
                        Tail(blocks), timestamp)

RECURSIVE analyze_messages(_, _)
analyze_messages(acc, messages) ==
    IF messages = <<>> THEN acc
    ELSE LET message_data == json_loads(Head(messages)[2])
             acc2 == IF message_data.ckind # "list" THEN acc
                     ELSE analyze_blocks(acc, message_data.list, Head(messages)[3])
         IN  analyze_messages(acc2, Tail(messages))

analyze_conversation(messages) == analyze_messages(EmptyStats, messages)

----------------------------------------------------------------------------
(* Statistics loop and index construction of generate_html *)

RECURSIVE dict_add_overwrite(_, _)
\* dict_add that stores the count instead of adding it
dict_add_overwrite(total, d) ==
    IF d = <<>> THEN total
    ELSE LET e == Head(d)
             total2 ==
                 IF \E k \in DOMAIN total : total[k].name = e.name
                 THEN [k \in DOMAIN total |->
                         IF total[k].name = e.name THEN e ELSE total[k]]
                 ELSE Append(total, e)
         IN  dict_add_overwrite(total2, Tail(d))

RECURSIVE dict_add(_, _)
\* total_tool_counts[tool] = total_tool_counts.get(tool, 0) + count
dict_add(total, d) ==
    IF d = <<>> THEN total
    ELSE LET e == Head(d)
             total2 ==
                 IF \E k \in DOMAIN total : total[k].name = e.name
                 THEN [k \in DOMAIN total |->
                         IF total[k].name = e.name
                         THEN [total[k] EXCEPT !.count = @ + e.count]
                         ELSE total[k]]
                 ELSE Append(total, e)
         IN  dict_add(total2, Tail(d))

RECURSIVE dict_sum(_)
dict_sum(d) == IF d = <<>> THEN 0 ELSE Head(d).count + dict_sum(Tail(d))

conv_page_num(i) == (i \div PROMPTS_PER_PAGE) + 1

RECURSIVE stats_loop(_, _, _)
\* "for i, conv in enumerate(conversations)": acc = [tool_counts, messages, commits]
stats_loop(convs, i, acc) ==
    IF i >= Len(convs) THEN acc
    ELSE LET conv == convs[i + 1]
             stats == analyze_conversation(conv.messages)
             tagged == [k \in DOMAIN stats.commits |->
                          [timestamp |-> stats.commits[k].timestamp,
                           hash |-> stats.commits[k].hash,
                           page_num |-> conv_page_num(i),
                           conv_idx |-> i]]
         IN  stats_loop(convs, i + 1,
                 [tool_counts |-> dict_add(acc.tool_counts, stats.tool_counts),
                  messages |-> acc.messages + Len(conv.messages),
                  commits |-> acc.commits \o tagged])

\* abbrev.get(name, name.lower()): a name outside the table stands for its
\* own lower-case form
abbrev(name) ==
    CASE name = "Bash" -> "bash"
      [] name = "Read" -> "read"
      [] name = "Write" -> "write"
      [] name = "Edit" -> "edit"
      [] name = "TodoWrite" -> "todo"
      [] OTHER -> name

RECURSIVE insert_by_count_strict(_, _)
\* insertion that puts an entry before the entries of equal count
insert_by_count_strict(sorted, e) ==
    IF sorted = <<>> THEN <<e>>
    ELSE IF Head(sorted).count > e.count
    THEN <<Head(sorted)>> \o insert_by_count_strict(Tail(sorted), e)
    ELSE <<e>> \o sorted

RECURSIVE insert_by_count(_, _)
\* stable insertion for sorted(..., key=lambda x: -x[1])
insert_by_count(sorted, e) ==
    IF sorted = <<>> THEN <<e>>
    ELSE IF Head(sorted).count >= e.count
    THEN <<Head(sorted)>> \o insert_by_count(Tail(sorted), e)
    ELSE <<e>> \o sorted

RECURSIVE sort_by_count(_, _)
sort_by_count(d, sorted) ==
    IF d = <<>> THEN sorted
    ELSE sort_by_count(Tail(d), insert_by_count(sorted, Head(d)))

format_tool_stats(tool_counts) ==
    LET sorted == sort_by_count(tool_counts, <<>>)
    IN  [k \in DOMAIN sorted |->
            [count |-> sorted[k].count, short_name |-> abbrev(sorted[k].name)]]

is_hook_feedback(conv) == startswith(conv.user_text, HOOK_MARKER)

\* continuation_messages that attributes no continuation to the prompt
continuation_messages_none(convs, j) == <<>>

RECURSIVE continuation_messages_no_break(_, _)
\* continuation_messages that passes over a conversation that is no
\* continuation instead of stopping at it
continuation_messages_no_break(convs, j) ==
    IF j >= Len(convs) THEN <<>>
    ELSE IF ~convs[j + 1].is_continuation
         THEN continuation_messages_no_break(convs, j + 1)
         ELSE convs[j + 1].messages \o continuation_messages_no_break(convs, j + 1)

RECURSIVE continuation_messages(_, _)
\* "for j in range(i + 1, len(conversations))" with its break; j is 0-based
continuation_messages(convs, j) ==
    IF j >= Len(convs) THEN <<>>
    ELSE IF ~convs[j + 1].is_continuation THEN <<>>
    ELSE convs[j + 1].messages \o continuation_messages(convs, j + 1)

all_messages_of(convs, i) ==
    convs[i + 1].messages \o continuation_messages(convs, i + 1)

\* index_item whose link takes the page from the prompt number
index_item_page_by_num(num, conv, i, stats) ==
    [num |-> num,
     link |-> [page |-> conv_page_num(num - 1), msg_id |-> make_msg_id(conv.timestamp)],
     timestamp |-> conv.timestamp,
     rendered_content |-> render_markdown_text(conv.user_text),
     tool_stats |-> format_tool_stats(stats.tool_counts),
     long_texts |-> stats.long_texts]

index_item(num, conv, i, stats) ==
    [num |-> num,
     link |-> [page |-> conv_page_num(i), msg_id |-> make_msg_id(conv.timestamp)],
     timestamp |-> conv.timestamp,
     rendered_content |-> render_markdown_text(conv.user_text),
     tool_stats |-> format_tool_stats(stats.tool_counts),
     long_texts |-> stats.long_texts]

RECURSIVE prompt_loop_hooks_numbered(_, _, _)
\* prompt_loop without the test for the hook-feedback marker
prompt_loop_hooks_numbered(convs, i, acc) ==
    IF i >= Len(convs) THEN acc
    ELSE LET conv == convs[i + 1]
         IN  IF conv.is_continuation
             THEN prompt_loop_hooks_numbered(convs, i + 1, acc)
             ELSE LET num == acc.prompt_num + 1
                      stats == analyze_conversation(all_messages_of(convs, i))
                  IN  prompt_loop_hooks_numbered(convs, i + 1,
                          [prompt_num |-> num,
                           items |-> Append(acc.items,
                               [timestamp |-> conv.timestamp, kind |-> "prompt",
                                item |-> index_item(num, conv, i, stats)])])

RECURSIVE prompt_loop(_, _, _)
\* "for i, conv in enumerate(conversations)": acc = [prompt_num, items]
prompt_loop(convs, i, acc) ==
    IF i >= Len(convs) THEN acc
    ELSE LET conv == convs[i + 1]
         IN  IF conv.is_continuation \/ is_hook_feedback(conv)
             THEN prompt_loop(convs, i + 1, acc)
             ELSE LET num == acc.prompt_num + 1
                      stats == analyze_conversation(all_messages_of(convs, i))
                  IN  prompt_loop(convs, i + 1,
                          [prompt_num |-> num,
                           items |-> Append(acc.items,
                               [timestamp |-> conv.timestamp, kind |-> "prompt",
                                item |-> index_item(num, conv, i, stats)])])

commit_items(commits, repo) ==
    [k \in DOMAIN commits |->
        [timestamp |-> commits[k].timestamp, kind |-> "commit",
         item |-> [hash |-> commits[k].hash, timestamp |-> commits[k].timestamp,
                   repo |-> repo]]]

RECURSIVE insert_by_timestamp_unstable(_, _)
\* insertion that puts an entry before the entries of equal timestamp
insert_by_timestamp_unstable(sorted, e) ==
    IF sorted = <<>> THEN <<e>>
    ELSE IF Head(sorted).timestamp < e.timestamp
    THEN <<Head(sorted)>> \o insert_by_timestamp_unstable(Tail(sorted), e)
    ELSE <<e>> \o sorted

RECURSIVE insert_by_timestamp(_, _)
\* stable insertion for timeline_items.sort(key=lambda x: x[0])
insert_by_timestamp(sorted, e) ==
    IF sorted = <<>> THEN <<e>>
    ELSE IF Head(sorted).timestamp <= e.timestamp
    THEN <<Head(sorted)>> \o insert_by_timestamp(Tail(sorted), e)
    ELSE <<e>> \o sorted

RECURSIVE sort_timeline(_, _)
sort_timeline(items, sorted) ==
    IF items = <<>> THEN sorted
    ELSE sort_timeline(Tail(items), insert_by_timestamp(sorted, Head(items)))

RECURSIVE detect_in_segs(_)
detect_in_segs(segs) ==
    IF segs = <<>> THEN None
    ELSE IF Head(segs).repo # None THEN Head(segs).repo
    ELSE detect_in_segs(Tail(segs))

RECURSIVE detect_in_blocks(_)
detect_in_blocks(blocks) ==
    IF blocks = <<>> THEN None
    ELSE LET b == Head(blocks)
             found == IF b.type = "tool_result" /\ b.content.isstr
                      THEN detect_in_segs(b.content.segs) ELSE None
         IN  IF found # None THEN found ELSE detect_in_blocks(Tail(blocks))

RECURSIVE detect_github_repo(_)
detect_github_repo(entries) ==
    IF entries = <<>> THEN None
    ELSE LET m == Head(entries).message
             found == IF m.ckind = "list" THEN detect_in_blocks(m.list) ELSE None
         IN  IF found # None THEN found ELSE detect_github_repo(Tail(entries))

----------------------------------------------------------------------------
(* Session files.  A JSON object is a record of its keys.  A line of a     *)
(* .jsonl file is blank, or text that is no JSON, or the JSON text of a    *)
(* value that is no object (an array, a number, ...), or the JSON text of  *)
(* an object.                                                              *)

BlankLine == [kind |-> "blank", value |-> <<>>]

GarbageLine == [kind |-> "garbage", value |-> <<>>]

NonObjectLine == [kind |-> "nonobject", value |-> <<>>]

ObjectLine(obj) == [kind |-> "object", value |-> obj]

\* the timestamp "", which sorts before every other timestamp
EmptyTimestamp == 0

\* dict.get(key, default)
get(obj, key, default) == IF key \in DOMAIN obj THEN obj[key] ELSE default

\* parse_line that keeps the entries of every type
parse_line_any_type(obj) ==
    LET entry == [type |-> get(obj, "type", None),
                  timestamp |-> get(obj, "timestamp", EmptyTimestamp),
                  message |-> get(obj, "message", EmptyMessage)]
    IN  IF bool(get(obj, "isCompactSummary", FALSE))
        THEN <<[type |-> entry.type, timestamp |-> entry.timestamp,
                message |-> entry.message, isCompactSummary |-> TRUE]>>
        ELSE <<entry>>

\* parse_line that does not copy isCompactSummary
parse_line_no_flag(obj) ==
    IF get(obj, "type", None) \notin {"user", "assistant"} THEN <<>>
    ELSE <<[type |-> get(obj, "type", None),
            timestamp |-> get(obj, "timestamp", EmptyTimestamp),
            message |-> get(obj, "message", EmptyMessage)]>>

\* the body of the try block for the object of one line: the entries
\* appended to loglines; obj.get("isCompactSummary") is None, which is
\* falsy, when the key is missing
parse_line(obj) ==
    LET entry_type == get(obj, "type", None)
        entry == [type |-> entry_type,
                  timestamp |-> get(obj, "timestamp", EmptyTimestamp),
                  message |-> get(obj, "message", EmptyMessage)]
    IN  IF entry_type \notin {"user", "assistant"} THEN <<>>
        ELSE IF bool(get(obj, "isCompactSummary", FALSE))
        THEN <<[type |-> entry.type, timestamp |-> entry.timestamp,
                message |-> entry.message, isCompactSummary |-> TRUE]>>
        ELSE <<entry>>

RECURSIVE parse_lines(_, _)
\* "for line in f": a blank line is skipped; json.loads of text that is no
\* JSON raises JSONDecodeError, which is caught; obj.get on a value that is
\* no object raises AttributeError, which is not
parse_lines(lines, acc) ==
    IF lines = <<>> THEN [raised |-> FALSE, loglines |-> acc]
    ELSE LET line == Head(lines)
         IN  CASE line.kind = "blank" -> parse_lines(Tail(lines), acc)
               [] line.kind = "garbage" -> parse_lines(Tail(lines), acc)
               [] line.kind = "nonobject" -> [raised |-> TRUE, loglines |-> <<>>]
               [] OTHER ->
                    parse_lines(Tail(lines), acc \o parse_line(line.value))

_parse_jsonl_file(lines) == parse_lines(lines, <<>>)

\* json.load returns the document, whose "loglines" the model holds
parse_session_file(sfx, file) ==
    IF sfx = ".jsonl" THEN _parse_jsonl_file(file)
    ELSE [raised |-> FALSE, loglines |-> file]

\* the fields the segmentation loop reads from an entry
entry_view(entry) ==
    LogEntry(get(entry, "type", None),
             get(entry, "timestamp", EmptyTimestamp),
             get(entry, "isCompactSummary", FALSE),
             get(entry, "message", EmptyMessage))

----------------------------------------------------------------------------
(* get_session_summary.  A summary text and the content of a user message  *)
(* are sequences of characters here.                                       *)

NO_SUMMARY == <<"(no summary)">>

ELLIPSIS == <<".", ".", ".">>

LT == "<"

Max(a, b) == IF a > b THEN a ELSE b

\* s[:n], where a negative n counts from the end
slice_to(s, n) ==
    IF n >= 0 THEN SubSeq(s, 1, Min(n, Len(s)))
    ELSE SubSeq(s, 1, Max(Len(s) + n, 0))

\* truncate that cuts at max_length before adding the ellipsis
truncate_late(text, max_length) ==
    IF Len(text) > max_length
    THEN slice_to(text, max_length) \o ELLIPSIS
    ELSE text

\* "if len(x) > max_length: return x[: max_length - 3] + "..."; return x"
truncate(text, max_length) ==
    IF Len(text) > max_length
    THEN slice_to(text, max_length - 3) \o ELLIPSIS
    ELSE text

\* the truth value of message.get("content")
content_truthy(msg) ==
    \/ msg.ckind = "str" /\ msg.str # <<>>
    \/ msg.ckind = "list" /\ msg.list # <<>>

RECURSIVE summary_pass(_, _)
\* first loop of _get_jsonl_summary: the first record of type summary with
\* a non-empty summary; obj.get on a value that is no object raises
summary_pass(lines, max_length) ==
    IF lines = <<>> THEN [outcome |-> "end", value |-> <<>>]
    ELSE LET line == Head(lines)
         IN  CASE line.kind \in {"blank", "garbage"} ->
                    summary_pass(Tail(lines), max_length)
               [] line.kind = "nonobject" -> [outcome |-> "raised", value |-> <<>>]
               [] OTHER ->
                    LET obj == line.value
                    IN  IF /\ get(obj, "type", None) = "summary"
                           /\ get(obj, "summary", <<>>) # <<>>
                        THEN [outcome |-> "return",
                              value |-> truncate(obj.summary, max_length)]
                        ELSE summary_pass(Tail(lines), max_length)

RECURSIVE user_pass(_, _)
\* second loop of _get_jsonl_summary: the first user message that is not
\* meta and whose content is a string that, stripped, is non-empty and does
\* not start with "<"
user_pass(lines, max_length) ==
    IF lines = <<>> THEN [outcome |-> "end", value |-> <<>>]
    ELSE LET line == Head(lines)
         IN  CASE line.kind \in {"blank", "garbage"} ->
                    user_pass(Tail(lines), max_length)
               [] line.kind = "nonobject" -> [outcome |-> "raised", value |-> <<>>]
               [] OTHER ->
                    LET obj == line.value
                        msg == get(obj, "message", EmptyMessage)
                        content == strip(msg.str)
                    IN  IF /\ get(obj, "type", None) = "user"
                           /\ ~bool(get(obj, "isMeta", FALSE))
                           /\ content_truthy(msg)
                           /\ msg.ckind = "str"
                           /\ content # <<>>
                           /\ ~startswith(content, LT)
                        THEN [outcome |-> "return",
                              value |-> truncate(content, max_length)]
                        ELSE user_pass(Tail(lines), max_length)

\* _get_jsonl_summary that looks for a user message first
_get_jsonl_summary_user_first(lines, max_length) ==
    LET first == user_pass(lines, max_length)
    IN  IF first.outcome = "return" THEN first.value
        ELSE IF first.outcome = "raised" THEN NO_SUMMARY
        ELSE LET second == summary_pass(lines, max_length)
             IN  IF second.outcome = "return" THEN second.value ELSE NO_SUMMARY

\* an exception of either loop is caught by "except Exception: pass"
_get_jsonl_summary(lines, max_length) ==
    LET first == summary_pass(lines, max_length)
    IN  IF first.outcome = "return" THEN first.value
        ELSE IF first.outcome = "raised" THEN NO_SUMMARY
        ELSE LET second == user_pass(lines, max_length)
             IN  IF second.outcome = "return" THEN second.value ELSE NO_SUMMARY

RECURSIVE json_summary(_, _)
\* the loop of get_session_summary over the loglines of a .json file
json_summary(entries, max_length) ==
    IF entries = <<>> THEN NO_SUMMARY
    ELSE LET entry == Head(entries)
             msg == get(entry, "message", EmptyMessage)
         IN  IF /\ get(entry, "type", None) = "user"
                /\ msg.ckind = "str"
                /\ strip(msg.str) # <<>>
             THEN truncate(msg.str, max_length)
             ELSE json_summary(Tail(entries), max_length)

get_session_summary(sfx, file, max_length) ==
    IF sfx = ".jsonl" THEN _get_jsonl_summary(file, max_length)
    ELSE json_summary(file, max_length)

----------------------------------------------------------------------------
(* The generation run *)

\* github_repo arguments a caller passes
RepoArgs == {None, "owner/repo"}

NoStats == [tool_counts |-> <<>>, messages |-> 0, commits |-> <<>>]

\* no function is being called
NoCall == [fn |-> None, args |-> <<>>, ret |-> <<>>, returned |-> FALSE]

\* no command of the command line is being executed
NoCli == [cmd |-> None]

Calling(fn, args) == [fn |-> fn, args |-> args, ret |-> <<>>, returned |-> FALSE]

InitRun ==
    /\ pc = "start"
    /\ file_state = "ok"
    /\ output_dir = "absent"
    /\ runs = 1
    /\ cli = NoCli
    /\ module_github_repo = None
    /\ loglines = <<>>
    /\ conversations = <<>>
    /\ current_conv = <<>>
    /\ entry_idx = 0
    /\ page_files = <<>>
    /\ stats_total = NoStats
    /\ all_commits = <<>>
    /\ timeline_items = <<>>
    /\ prompt_num = 0
    /\ page_num = 1
    /\ index_file = <<>>

\* what reading the session file gives: open() raises when the file is
\* missing and json.load when the text of a .json file is no JSON
read_session_file(state, sfx, file) ==
    IF state = "missing" \/ (state = "invalid" /\ sfx # ".jsonl")
    THEN [raised |-> TRUE, loglines |-> <<>>]
    ELSE parse_session_file(sfx, file)

\* output_dir.mkdir(exist_ok=True): raises when the parent is missing
mkdir(dir) ==
    IF dir = "no_parent" THEN [raised |-> TRUE, dir |-> dir]
    ELSE [raised |-> FALSE, dir |-> "present"]

\* Load that assigns the github_repo argument to _github_repo before the
\* session file is read
Load_repo_before_read ==
    /\ pc = "start"
    /\ LET made == mkdir(output_dir)
           data == read_session_file(file_state, suffix, session)
       IN  /\ output_dir' = made.dir
           /\ IF made.raised
              THEN /\ pc' = "raised"
                   /\ UNCHANGED <<module_github_repo, loglines, conversations,
                                  current_conv, entry_idx>>
              ELSE IF data.raised
              THEN /\ pc' = "raised"
                   /\ module_github_repo' = github_repo
                   /\ UNCHANGED <<loglines, conversations, current_conv, entry_idx>>
              ELSE /\ module_github_repo' =
                         IF github_repo = None
                         THEN detect_github_repo(data.loglines)
                         ELSE github_repo
                   /\ loglines' = data.loglines
                   /\ conversations' = <<>>
                   /\ current_conv' = <<>>
                   /\ entry_idx' = 0
                   /\ pc' = "segment"
    /\ UNCHANGED <<env_vars, session, suffix, call, page_files, stats_total,
                   all_commits, timeline_items, prompt_num, page_num, index_file>>

\* Load that leaves _github_repo alone when no repository is given or found
Load_keep_repo ==
    /\ pc = "start"
    /\ LET made == mkdir(output_dir)
           data == read_session_file(file_state, suffix, session)
           repo == IF github_repo = None
                   THEN detect_github_repo(data.loglines)
                   ELSE github_repo
       IN  /\ output_dir' = made.dir
           /\ IF made.raised \/ data.raised
              THEN /\ pc' = "raised"
                   /\ UNCHANGED <<module_github_repo, loglines, conversations,
                                  current_conv, entry_idx>>
              ELSE /\ module_github_repo' =
                         IF repo = None THEN module_github_repo ELSE repo
                   /\ loglines' = data.loglines
                   /\ conversations' = <<>>
                   /\ current_conv' = <<>>
                   /\ entry_idx' = 0
                   /\ pc' = "segment"
    /\ UNCHANGED <<env_vars, session, suffix, call, page_files, stats_total,
                   all_commits, timeline_items, prompt_num, page_num, index_file>>

\* mkdir, parse_session_file, repository detection, assignment of
\* _github_repo
Load ==
    /\ pc = "start"
    /\ LET made == mkdir(output_dir)
           data == read_session_file(file_state, suffix, session)
       IN  /\ output_dir' = made.dir
           /\ IF made.raised \/ data.raised
              THEN /\ pc' = "raised"
                   /\ UNCHANGED <<module_github_repo, loglines, conversations,
                                  current_conv, entry_idx>>
              ELSE /\ module_github_repo' =
                         IF github_repo = None
                         THEN detect_github_repo(data.loglines)
                         ELSE github_repo
                   /\ loglines' = data.loglines
                   /\ conversations' = <<>>
                   /\ current_conv' = <<>>
                   /\ entry_idx' = 0
                   /\ pc' = "segment"
    /\ UNCHANGED <<env_vars, session, suffix, call, page_files, stats_total,
                   all_commits, timeline_items, prompt_num, page_num, index_file>>

\* one iteration of the segmentation loop
SegmentStep ==
    /\ pc = "segment"
    /\ entry_idx < Len(loglines)
    /\ LET st == segment_entry([convs |-> conversations, cur |-> current_conv],
                               entry_view(loglines[entry_idx + 1]))
       IN  /\ conversations' = st.convs
           /\ current_conv' = st.cur
    /\ entry_idx' = entry_idx + 1
    /\ UNCHANGED <<env_vars, output_dir, session, suffix, call, pc, module_github_repo, loglines, page_files,
                   stats_total, all_commits, timeline_items, prompt_num,
                   page_num, index_file>>

\* SegmentFlush without the append of the open conversation
SegmentFlush_no_append ==
    /\ pc = "segment"
    /\ entry_idx = Len(loglines)
    /\ page_num' = 1
    /\ pc' = "pages"
    /\ UNCHANGED <<env_vars, output_dir, session, suffix, call, module_github_repo, loglines, conversations,
                   current_conv, entry_idx, page_files, stats_total,
                   all_commits, timeline_items, prompt_num, index_file>>

\* end of the loop: the open conversation is appended
SegmentFlush ==
    /\ pc = "segment"
    /\ entry_idx = Len(loglines)
    /\ conversations' = IF current_conv # <<>>
                        THEN conversations \o current_conv ELSE conversations
    /\ page_num' = 1
    /\ pc' = "pages"
    /\ UNCHANGED <<env_vars, output_dir, session, suffix, call, module_github_repo, loglines, current_conv,
                   entry_idx, page_files, stats_total, all_commits,
                   timeline_items, prompt_num, index_file>>

total_convs == Len(conversations)

total_pages == total_pages_of(total_convs)

\* one iteration of "for page_num in range(1, total_pages + 1)"
WritePage ==
    /\ pc = "pages"
    /\ page_num <= total_pages
    /\ page_files' =
          [p \in DOMAIN page_files \cup {page_num} |->
              IF p = page_num
              THEN page_content(conversations, page_num, total_pages,
                                module_github_repo)
              ELSE page_files[p]]
    /\ page_num' = page_num + 1
    /\ UNCHANGED <<env_vars, output_dir, session, suffix, call, pc, module_github_repo, loglines, conversations,
                   current_conv, entry_idx, stats_total, all_commits,
                   timeline_items, prompt_num, index_file>>

\* the statistics loop
ComputeStats ==
    /\ pc = "pages"
    /\ page_num > total_pages
    /\ LET acc == stats_loop(conversations, 0, NoStats)
       IN  /\ stats_total' = acc
           /\ all_commits' = acc.commits
    /\ pc' = "timeline"
    /\ UNCHANGED <<env_vars, output_dir, session, suffix, call, module_github_repo, loglines, conversations,
                   current_conv, entry_idx, page_files, timeline_items,
                   prompt_num, page_num, index_file>>

\* prompts and commits are added to the timeline
BuildTimeline ==
    /\ pc = "timeline"
    /\ LET acc == prompt_loop(conversations, 0, [prompt_num |-> 0, items |-> <<>>])
       IN  /\ prompt_num' = acc.prompt_num
           /\ timeline_items' =
                 acc.items \o commit_items(all_commits, module_github_repo)
    /\ pc' = "index"
    /\ UNCHANGED <<env_vars, output_dir, session, suffix, call, module_github_repo, loglines, conversations,
                   current_conv, entry_idx, page_files, stats_total,
                   all_commits, page_num, index_file>>

\* the timeline is sorted and index.html is written
WriteIndex ==
    /\ pc = "index"
    /\ LET sorted == sort_timeline(timeline_items, <<>>)
       IN  /\ timeline_items' = sorted
           /\ index_file' =
                 <<[prompt_num |-> prompt_num,
                    total_messages |-> stats_total.messages,
                    total_tool_calls |-> dict_sum(stats_total.tool_counts),
                    total_commits |-> Len(all_commits),
                    total_pages |-> total_pages,
                    index_items |-> [k \in DOMAIN sorted |-> sorted[k].item]]>>
    /\ pc' = "done"
    /\ UNCHANGED <<env_vars, output_dir, session, suffix, call, module_github_repo, loglines, conversations,
                   current_conv, entry_idx, page_files, stats_total,
                   all_commits, prompt_num, page_num>>

\* generate_html_from_session_data without repository detection
LoadData_no_detect ==
    /\ pc = "start_data"
    /\ output_dir' = "present"
    /\ module_github_repo' = github_repo
    /\ loglines' = session
    /\ conversations' = <<>>
    /\ current_conv' = <<>>
    /\ entry_idx' = 0
    /\ pc' = "segment"
    /\ UNCHANGED <<env_vars, session, suffix, call, page_files, stats_total,
                   all_commits, timeline_items, prompt_num, page_num, index_file>>

\* the first part of generate_html_from_session_data: mkdir with
\* parents=True, session_data.get("loglines", []), repository detection,
\* assignment of _github_repo; the session is the dict's loglines
LoadData ==
    /\ pc = "start_data"
    /\ output_dir' = "present"
    /\ module_github_repo' =
          IF github_repo = None THEN detect_github_repo(session) ELSE github_repo
    /\ loglines' = session
    /\ conversations' = <<>>
    /\ current_conv' = <<>>
    /\ entry_idx' = 0
    /\ pc' = "segment"
    /\ UNCHANGED <<env_vars, session, suffix, call, page_files, stats_total,
                   all_commits, timeline_items, prompt_num, page_num, index_file>>

Next ==
    \/ Load
    \/ SegmentStep
    \/ SegmentFlush
    \/ WritePage
    \/ ComputeStats
    \/ BuildTimeline
    \/ WriteIndex

\* generate_html_from_session_data: its body after the first part is that
\* of generate_html
NextData ==
    \/ LoadData
    \/ SegmentStep
    \/ SegmentFlush
    \/ WritePage
    \/ ComputeStats
    \/ BuildTimeline
    \/ WriteIndex

----------------------------------------------------------------------------
(* Sessions *)

Seqs(S, n) == UNION {[1..k -> S] : k \in 0..n}

\* entry k of the file carries timestamp k, and its text blocks the tag k
Stamp(entries) ==
    [k \in DOMAIN entries |->
        [entries[k] EXCEPT
            !.timestamp = k,
            !.message.list =
                [b \in DOMAIN @ |->
                    IF @[b].type = "text" THEN [@[b] EXCEPT !.text.tag = k]
                    ELSE @[b]]]]

UserText(s, compact) == LogEntry("user", 0, compact, StrMessage(s))

AssistantText(n) == LogEntry("assistant", 0, FALSE, ListMessage(<<TextBlock(0, n)>>))

\* Sessions of the default specification: prompts, blank and array-form
\* user content, entries without a message or without content, replies
\* that render to nothing
MaxLen == 4

SegEntries ==
    { UserText(<<W>>, FALSE),
      UserText(<<SP, W>>, TRUE),
      UserText(<<SP>>, FALSE),
      LogEntry("user", 0, FALSE, ListMessage(<<TextBlock(0, 5)>>)),
      LogEntry("user", 0, FALSE, EmptyMessage),
      LogEntry("user", 0, FALSE, NoContentMessage),
      AssistantText(5),
      LogEntry("assistant", 0, FALSE, ListMessage(<<ToolUseBlock("TodoWrite", <<>>)>>)),
      LogEntry("system", 0, FALSE, StrMessage(<<W>>)) }

Init ==
    /\ session \in {Stamp(s) : s \in Seqs(SegEntries, MaxLen)}
    /\ suffix = ".json"
    /\ call = NoCall
    /\ InitRun
    /\ github_repo \in RepoArgs

Spec == Init /\ [][Next]_vars

\* Sessions long enough for three pages
MaxPageLen == 11

PageEntries == { UserText(<<W>>, FALSE), AssistantText(5) }

InitPages ==
    /\ session \in {Stamp(s) : s \in Seqs(PageEntries, MaxPageLen)}
    /\ suffix = ".json"
    /\ call = NoCall
    /\ InitRun
    /\ github_repo \in RepoArgs

SpecPages == InitPages /\ [][Next]_vars

\* Sessions with eligible, hook-feedback and continuation prompts and text
\* blocks on either side of LONG_TEXT_THRESHOLD
MaxIdxLen == 5

IdxEntries ==
    { UserText(<<W>>, FALSE),
      UserText(<<HOOK_MARKER, SP, W>>, FALSE),
      UserText(<<W, SP, W>>, TRUE),
      AssistantText(LONG_TEXT_THRESHOLD - 1),
      AssistantText(LONG_TEXT_THRESHOLD) }

InitIndex ==
    /\ session \in {Stamp(s) : s \in Seqs(IdxEntries, MaxIdxLen)}
    /\ suffix = ".json"
    /\ call = NoCall
    /\ InitRun
    /\ github_repo \in RepoArgs

SpecIndex == InitIndex /\ [][Next]_vars

\* Sessions whose timestamps repeat and run out of order, with commits
MaxTs == 1

MaxTimelineLen == 4

ToolReply(ts, h) ==
    LogEntry("user", ts, FALSE,
             ListMessage(<<ToolResultBlock(TRUE, <<CommitSeg(h)>>, FALSE)>>))

TimelineEntries ==
    {LogEntry("user", ts, FALSE, StrMessage(<<W>>)) : ts \in 0..MaxTs}
    \cup {ToolReply(ts, h) : ts \in 0..MaxTs, h \in {"abc1234", "def5678"}}

InitTimeline ==
    /\ session \in Seqs(TimelineEntries, MaxTimelineLen)
    /\ suffix = ".json"
    /\ call = NoCall
    /\ InitRun
    /\ github_repo \in RepoArgs

SpecTimeline == InitTimeline /\ [][Next]_vars

\* Sessions with tool replies before the first prompt and inside eligible,
\* hook-feedback and continuation conversations: one commit match, the same
\* hash matched twice around literal text, and structured content
MaxCommitLen == 5

CommitEntries ==
    { UserText(<<W>>, FALSE),
      UserText(<<HOOK_MARKER, SP, W>>, FALSE),
      UserText(<<W, SP, W>>, TRUE),
      ToolReply(0, "abc1234"),
      LogEntry("user", 0, FALSE,
               ListMessage(<<ToolResultBlock(TRUE,
                   <<CommitSeg("def5678"), Lit(FALSE, None), CommitSeg("def5678")>>,
                   FALSE)>>)),
      LogEntry("user", 0, FALSE,
               ListMessage(<<ToolResultBlock(FALSE, <<CommitSeg("abc1234")>>, FALSE)>>)) }

InitCommits ==
    /\ session \in {Stamp(s) : s \in Seqs(CommitEntries, MaxCommitLen)}
    /\ suffix = ".json"
    /\ call = NoCall
    /\ InitRun
    /\ github_repo \in RepoArgs

SpecCommits == InitCommits /\ [][Next]_vars

\* Sessions of up to six conversations that mix eligible, hook-feedback
\* and continuation prompts
MaxMixLen == 6

MixEntries ==
    { UserText(<<W>>, FALSE),
      UserText(<<HOOK_MARKER, SP, W>>, FALSE),
      UserText(<<W, SP, W>>, TRUE),
      AssistantText(5) }

InitMix ==
    /\ session \in {Stamp(s) : s \in Seqs(MixEntries, MaxMixLen)}
    /\ suffix = ".json"
    /\ call = NoCall
    /\ InitRun
    /\ github_repo \in RepoArgs

SpecMix == InitMix /\ [][Next]_vars

\* Sessions of up to six conversations with tool calls and commits
MaxTotalsLen == 6

TotalsEntries ==
    { UserText(<<W>>, FALSE),
      UserText(<<W, SP, W>>, TRUE),
      LogEntry("assistant", 0, FALSE,
               ListMessage(<<ToolUseBlock("Bash", <<>>), TextBlock(0, 5),
                             ToolUseBlock("Read", <<>>), ToolUseBlock("Bash", <<>>)>>)),
      ToolReply(0, "abc1234") }

InitTotals ==
    /\ session \in {Stamp(s) : s \in Seqs(TotalsEntries, MaxTotalsLen)}
    /\ suffix = ".json"
    /\ call = NoCall
    /\ InitRun
    /\ github_repo \in RepoArgs

SpecTotals == InitTotals /\ [][Next]_vars

\* Sessions of up to six entries whose replies call a tool and carry a
\* long text, under eligible, hook-feedback and continuation prompts
MaxAttrLen == 6

AttrEntries ==
    { UserText(<<W>>, FALSE),
      UserText(<<HOOK_MARKER, SP, W>>, FALSE),
      UserText(<<W, SP, W>>, TRUE),
      LogEntry("assistant", 0, FALSE,
               ListMessage(<<ToolUseBlock("Bash", <<>>),
                             TextBlock(0, LONG_TEXT_THRESHOLD)>>)) }

InitAttr ==
    /\ session \in {Stamp(s) : s \in Seqs(AttrEntries, MaxAttrLen)}
    /\ suffix = ".json"
    /\ call = NoCall
    /\ InitRun
    /\ github_repo \in RepoArgs

SpecAttr == InitAttr /\ [][Next]_vars

\* .jsonl files: blank lines, text that is no JSON, JSON that is no object,
\* prompts with and without isCompactSummary and other keys, records of
\* other types with and without a message, objects without type, timestamp
\* or message
MaxLines == 3

JsonlLines ==
    { BlankLine,
      GarbageLine,
      NonObjectLine,
      ObjectLine([type |-> "user", timestamp |-> 0, message |-> StrMessage(<<W>>)]),
      ObjectLine([type |-> "user", timestamp |-> 0,
                  message |-> StrMessage(<<W, SP, W>>),
                  isCompactSummary |-> TRUE, uuid |-> "u1"]),
      ObjectLine([type |-> "assistant", timestamp |-> 0,
                  message |-> ListMessage(<<TextBlock(0, 5)>>),
                  isCompactSummary |-> FALSE]),
      ObjectLine([type |-> "summary", summary |-> <<W>>]),
      ObjectLine([type |-> "system", timestamp |-> 0, message |-> StrMessage(<<W>>)]),
      ObjectLine([type |-> "user"]),
      ObjectLine([timestamp |-> 0, message |-> StrMessage(<<W>>)]) }

\* line k of the file carries timestamp k
StampLines(lines) ==
    [k \in DOMAIN lines |->
        IF lines[k].kind = "object" /\ "timestamp" \in DOMAIN lines[k].value
        THEN [lines[k] EXCEPT !.value.timestamp = k]
        ELSE lines[k]]

InitJsonl ==
    /\ session \in {StampLines(f) : f \in Seqs(JsonlLines, MaxLines)}
    /\ suffix = ".jsonl"
    /\ call = NoCall
    /\ InitRun
    /\ github_repo \in RepoArgs

SpecJsonl == InitJsonl /\ [][Next]_vars

----------------------------------------------------------------------------
(* Generation runs one after another in one process into one output        *)
(* directory.  The locals of generate_html are gone when it returns; the   *)
(* module-level _github_repo and the files of the directory stay.          *)

MaxRuns == 2

Prompt == UserText(<<W>>, FALSE)

\* a tool result that names a repository and reports a commit
RepoReply(repo, h) ==
    LogEntry("user", 0, FALSE,
             ListMessage(<<ToolResultBlock(TRUE, <<Lit(FALSE, repo), CommitSeg(h)>>,
                                           FALSE)>>))

\* six conversations, the last with a commit and the name of a repository
LongSession ==
    Stamp(<<Prompt, Prompt, Prompt, Prompt, Prompt, Prompt,
            RepoReply("found/repo", "abc1234")>>)

\* session files: empty; one page with a commit and no repository; one
\* page naming two repositories; the two pages of LongSession
RunSessions ==
    { <<>>,
      Stamp(<<Prompt, ToolReply(0, "abc1234")>>),
      Stamp(<<Prompt, RepoReply("other/repo", "abc1234"),
              RepoReply("found/repo", "def5678")>>),
      LongSession }

FileStates == {"ok", "missing", "invalid"}

InitRuns ==
    /\ session \in RunSessions
    /\ suffix = ".json"
    /\ call = NoCall
    /\ github_repo \in RepoArgs
    /\ file_state \in FileStates
    /\ output_dir \in {"absent", "no_parent"}
    /\ runs = 1
    /\ cli = NoCli
    /\ pc = "start"
    /\ module_github_repo = None
    /\ loglines = <<>>
    /\ conversations = <<>>
    /\ current_conv = <<>>
    /\ entry_idx = 0
    /\ page_files = <<>>
    /\ stats_total = NoStats
    /\ all_commits = <<>>
    /\ timeline_items = <<>>
    /\ prompt_num = 0
    /\ page_num = 1
    /\ index_file = <<>>

\* generate_html has returned or raised and is called again
NewRun ==
    /\ pc \in {"done", "raised"}
    /\ runs < MaxRuns
    /\ runs' = runs + 1
    /\ session' \in RunSessions
    /\ github_repo' \in RepoArgs
    /\ file_state' \in FileStates
    /\ pc' = "start"
    /\ loglines' = <<>>
    /\ conversations' = <<>>
    /\ current_conv' = <<>>
    /\ entry_idx' = 0
    /\ stats_total' = NoStats
    /\ all_commits' = <<>>
    /\ timeline_items' = <<>>
    /\ prompt_num' = 0
    /\ page_num' = 1
    /\ UNCHANGED <<suffix, call, cli, output_dir, module_github_repo,
                   page_files, index_file>>

NextRuns ==
    \/ Next
    \/ NewRun

SpecRuns == InitRuns /\ [][NextRuns]_vars

----------------------------------------------------------------------------
(* Calls of generate_html_from_session_data.  The call records the state   *)
(* of the output directory it was given.                                   *)

MaxDataLen == 4

DataEntries ==
    { Prompt,
      UserText(<<W, SP, W>>, TRUE),
      AssistantText(LONG_TEXT_THRESHOLD),
      RepoReply("found/repo", "abc1234"),
      ToolReply(0, "def5678") }

OutputDirs == {"present", "absent", "no_parent"}

InitData ==
    /\ session \in {Stamp(f) : f \in Seqs(DataEntries, MaxDataLen)} \cup {LongSession}
    /\ suffix = ".json"
    /\ github_repo \in RepoArgs
    /\ file_state = "ok"
    /\ output_dir \in OutputDirs
    /\ call = Calling("generate_html_from_session_data", <<output_dir>>)
    /\ runs = 1
    /\ cli = NoCli
    /\ pc = "start_data"
    /\ module_github_repo = None
    /\ loglines = <<>>
    /\ conversations = <<>>
    /\ current_conv = <<>>
    /\ entry_idx = 0
    /\ page_files = <<>>
    /\ stats_total = NoStats
    /\ all_commits = <<>>
    /\ timeline_items = <<>>
    /\ prompt_num = 0
    /\ page_num = 1
    /\ index_file = <<>>

SpecData == InitData /\ [][NextData]_vars

----------------------------------------------------------------------------
(* Calls of single functions of the module *)

run_vars == <<pc, module_github_repo, loglines, conversations, current_conv,
              entry_idx, page_files, stats_total, all_commits, timeline_items,
              prompt_num, page_num, index_file>>

\* the called function returns value
Returns(fn, value) ==
    /\ call.fn = fn
    /\ ~call.returned
    /\ call' = [call EXCEPT !.ret = value, !.returned = TRUE]
    /\ UNCHANGED <<env_vars, output_dir, session, suffix, run_vars>>

\* tool names in the order of Python's string comparison; "mcp__ide" is a
\* name outside the abbreviation table and its own lower-case form
ToolNames == <<"Bash", "Edit", "Read", "TodoWrite", "mcp__ide">>

MaxTools == 3

MaxCount == 2

\* dicts of tool counts: distinct names in any insertion order
ToolCountDicts ==
    {d \in Seqs([name : Range(ToolNames), count : 1..MaxCount], MaxTools) :
        \A a, b \in DOMAIN d : a # b => d[a].name # d[b].name}

InitToolStats ==
    /\ session = <<>>
    /\ suffix = ".json"
    /\ InitRun
    /\ github_repo = None
    /\ call \in {Calling("format_tool_stats", <<d>>) : d \in ToolCountDicts}

CallFormatToolStats ==
    Returns("format_tool_stats", format_tool_stats(call.args[1]))

SpecToolStats == InitToolStats /\ [][CallFormatToolStats]_vars

\* Session files for get_session_summary: summary records with a text and
\* with an empty one, user messages that are ordinary, padded with
\* whitespace, meta, tag-like ("<...") or lists of blocks, and lines that
\* are no objects
MaxSummaryLines == 3

MaxBudget == 6

SummaryObjects ==
    { [type |-> "summary", summary |-> <<"s", "s", "s", "s", "s">>],
      [type |-> "summary", summary |-> <<>>],
      [type |-> "user", message |-> StrMessage(<<SP, W, W, W, W, SP>>)],
      [type |-> "user", message |-> StrMessage(<<LT, W>>)],
      [type |-> "user", isMeta |-> TRUE, message |-> StrMessage(<<"m", "m">>)],
      [type |-> "user", message |-> ListMessage(<<TextBlock(0, 5)>>)],
      [type |-> "assistant", message |-> StrMessage(<<"a">>)] }

SummaryLines ==
    {BlankLine, GarbageLine, NonObjectLine}
    \cup {ObjectLine(obj) : obj \in SummaryObjects}

InitSummary ==
    /\ \/ /\ suffix = ".jsonl"
          /\ session \in Seqs(SummaryLines, MaxSummaryLines)
       \/ /\ suffix = ".json"
          /\ session \in Seqs(SummaryObjects, MaxSummaryLines)
    /\ InitRun
    /\ github_repo = None
    /\ call \in {Calling("get_session_summary", <<max_length>>) :
                    max_length \in 0..MaxBudget}

CallGetSessionSummary ==
    Returns("get_session_summary",
            get_session_summary(suffix, session, call.args[1]))

SpecSummary == InitSummary /\ [][CallGetSessionSummary]_vars

\* Content blocks for render_content_block: an image, text, tool calls, and
\* tool results whose string content holds non-blank text, blank text and
\* commit matches in any arrangement
MaxSegs == 4

ImageBlock ==
    [type |-> "image",
     source |-> [type |-> "base64", media_type |-> "image/gif", data |-> "R0lGODlh"]]

ContentBlocks ==
    { ImageBlock,
      TextBlock(0, 5),
      [type |-> "thinking", text |-> [tag |-> 0, len |-> 5]],
      ToolUseBlock("Bash", <<>>),
      ToolUseBlock("TodoWrite", <<>>),
      ToolResultBlock(FALSE, <<>>, FALSE) }
    \cup { ToolResultBlock(TRUE, segs, is_error) :
             segs \in Seqs({Lit(FALSE, None), Lit(TRUE, None),
                            CommitSeg("abc1234"), CommitSeg("def5678")}, MaxSegs),
             is_error \in BOOLEAN }

InitBlocks ==
    /\ session = <<>>
    /\ suffix = ".json"
    /\ github_repo = None
    /\ file_state = "ok"
    /\ output_dir = "absent"
    /\ runs = 1
    /\ cli = NoCli
    /\ pc = "start"
    /\ module_github_repo \in RepoArgs
    /\ loglines = <<>>
    /\ conversations = <<>>
    /\ current_conv = <<>>
    /\ entry_idx = 0
    /\ page_files = <<>>
    /\ stats_total = NoStats
    /\ all_commits = <<>>
    /\ timeline_items = <<>>
    /\ prompt_num = 0
    /\ page_num = 1
    /\ index_file = <<>>
    /\ call \in {Calling("render_content_block", <<block>>) : block \in ContentBlocks}

CallRenderContentBlock ==
    Returns("render_content_block",
            render_content_block(call.args[1], module_github_repo))

SpecBlocks == InitBlocks /\ [][CallRenderContentBlock]_vars

----------------------------------------------------------------------------
(* create_gist.  A file of the directory is its stem and its extension; a  *)
(* string is a sequence of tokens: "/", the line end NL, or a stretch of   *)
(* other characters.  The external command ends with exit status 0 and an  *)
(* output, ends with another exit status, or is not found.                 *)

NL == "NL"

SLASH == "/"

\* the files a directory may hold, in the order of sorted()
DirFiles ==
    << [stem |-> "index", ext |-> ".html"],
       [stem |-> "page-001", ext |-> ".html"],
       [stem |-> "session", ext |-> ".json"] >>

\* output_dir.glob("*.html"), sorted
html_files_of(files) ==
    SelectSeq(DirFiles, LAMBDA f : f \in files /\ f.ext = ".html")

RECURSIVE lstrip_line_ends(_)
\* str.lstrip() of a string whose white space is line ends
lstrip_line_ends(str) ==
    IF str # <<>> /\ Head(str) = NL THEN lstrip_line_ends(Tail(str)) ELSE str

RECURSIVE rstrip_chars(_, _)
\* str.rstrip(chars)
rstrip_chars(str, ch) ==
    IF str # <<>> /\ str[Len(str)] = ch
    THEN rstrip_chars(SubSeq(str, 1, Len(str) - 1), ch) ELSE str

\* str.strip() of a string whose white space is line ends
strip_line_ends(str) == rstrip_chars(lstrip_line_ends(str), NL)

RECURSIVE last_piece(_)
\* str.split("/")[-1]
last_piece(str) ==
    IF str = <<>> \/ str[Len(str)] = SLASH THEN <<>>
    ELSE Append(last_piece(SubSeq(str, 1, Len(str) - 1)), str[Len(str)])

\* ["gh", "gist", "create"] + [str(f) for f in sorted(html_files)], with
\* "--public" appended on request
Command(html_files, public) ==
    [argv |-> <<"gh", "gist", "create">>, files |-> html_files,
     options |-> IF public THEN <<"--public">> ELSE <<>>]

\* subprocess.run is not called
NoCommand == [argv |-> <<>>, files |-> <<>>, options |-> <<>>]

ClickException(message, cmd) ==
    [raised |-> "ClickException", message |-> message, cmd |-> cmd, value |-> <<>>]

\* create_gist that runs the command whatever the directory holds
create_gist_no_check(files, public, outcome, stdout) ==
    LET cmd == Command(html_files_of(files), public)
    IN  IF outcome = "nonzero_exit"
        THEN ClickException("Failed to create gist", cmd)
        ELSE IF outcome = "not_found"
        THEN ClickException("gh CLI not found", cmd)
        ELSE LET gist_url == strip_line_ends(stdout)
                 gist_id == last_piece(rstrip_chars(gist_url, SLASH))
             IN  [raised |-> None, message |-> None, cmd |-> cmd,
                  value |-> <<gist_id, gist_url>>]

\* create_gist: cmd is the command handed to subprocess.run, NoCommand
\* when it is not called
create_gist(files, public, outcome, stdout) ==
    LET html_files == html_files_of(files)
    IN  IF html_files = <<>>
        THEN ClickException("No HTML files found to upload to gist.", NoCommand)
        ELSE LET cmd == Command(html_files, public)
             IN  IF outcome = "nonzero_exit"
                 THEN ClickException("Failed to create gist", cmd)
                 ELSE IF outcome = "not_found"
                 THEN ClickException("gh CLI not found", cmd)
                 ELSE LET gist_url == strip_line_ends(stdout)
                          gist_id == last_piece(rstrip_chars(gist_url, SLASH))
                      IN  [raised |-> None, message |-> None, cmd |-> cmd,
                           value |-> <<gist_id, gist_url>>]

MaxOut == 4

\* what the command may print
Outputs == Seqs({SLASH, NL, "user", "abc123"}, MaxOut)

CommandOutcomes == {"ok", "nonzero_exit", "not_found"}

InitGist ==
    /\ session = <<>>
    /\ suffix = ".json"
    /\ InitRun
    /\ github_repo = None
    /\ call \in {Calling("create_gist", <<files, public, outcome, stdout>>) :
                    files \in SUBSET Range(DirFiles), public \in BOOLEAN,
                    outcome \in CommandOutcomes, stdout \in Outputs}

CallCreateGist ==
    Returns("create_gist",
            create_gist(call.args[1], call.args[2], call.args[3], call.args[4]))

SpecGist == InitGist /\ [][CallCreateGist]_vars

----------------------------------------------------------------------------
(* The commands json, local and web.  cli holds the options, the position  *)
(* of the command, and what it has done outside generation: the copy of    *)
(* the session file, the injection of the preview script, the result of    *)
(* create_gist and the URLs handed to webbrowser.open.                     *)

CliCommands == {"json", "local", "web"}

CliStart(cmd, output, output_auto, gist, include_json, open_browser) ==
    [cmd |-> cmd, output |-> output, output_auto |-> output_auto, gist |-> gist,
     include_json |-> include_json, open_browser |-> open_browser,
     at |-> "begin", auto_open |-> FALSE, copied |-> FALSE, injected |-> FALSE,
     gist_result |-> <<>>, browser |-> <<>>]

\* (output / "index.html").resolve().as_uri()
IndexUrl == [scheme |-> "file", file |-> "index.html"]

CliSessions == {<<>>, Stamp(<<Prompt, ToolReply(0, "abc1234")>>)}

CliOutputs == {<<"user", SLASH, "abc123", NL>>}

\* the files of the output directory
FilesOfDir ==
    (IF index_file # <<>> THEN {DirFiles[1]} ELSE {})
    \cup (IF 1 \in DOMAIN page_files THEN {DirFiles[2]} ELSE {})
    \cup (IF cli.copied THEN {DirFiles[3]} ELSE {})

\* a command is started; without -o the directory is below the temporary
\* directory or the current one, which exist
InitCli ==
    /\ cli \in {CliStart(cmd, o, a, g, j, b) :
                   cmd \in CliCommands, o \in BOOLEAN, a \in BOOLEAN,
                   g \in BOOLEAN, j \in BOOLEAN, b \in BOOLEAN}
    /\ session \in CliSessions
    /\ suffix = ".json"
    /\ call = NoCall
    /\ github_repo \in RepoArgs
    /\ file_state \in {"ok", "invalid"}
    /\ cli.cmd = "web" => file_state = "ok"
    /\ output_dir \in OutputDirs
    /\ ~cli.output => output_dir # "no_parent"
    /\ runs = 1
    /\ pc = "idle"
    /\ module_github_repo = None
    /\ loglines = <<>>
    /\ conversations = <<>>
    /\ current_conv = <<>>
    /\ entry_idx = 0
    /\ page_files = <<>>
    /\ stats_total = NoStats
    /\ all_commits = <<>>
    /\ timeline_items = <<>>
    /\ prompt_num = 0
    /\ page_num = 1
    /\ index_file = <<>>

cli_frame == <<github_repo, file_state, runs, output_dir, session, suffix, call,
               module_github_repo, loglines, conversations, current_conv,
               entry_idx, page_files, stats_total, all_commits, timeline_items,
               prompt_num, page_num, index_file>>

\* CliBegin whose auto_open does not look at -a
CliBegin_auto_ignores_a ==
    /\ cli.at = "begin"
    /\ pc = "idle"
    /\ \E found \in BOOLEAN :
          IF ~found /\ cli.cmd = "local"
          THEN cli' = [cli EXCEPT !.at = "returned"] /\ pc' = pc
          ELSE IF ~found /\ cli.cmd = "web"
          THEN cli' = [cli EXCEPT !.at = "failed"] /\ pc' = pc
          ELSE /\ cli' = [cli EXCEPT !.at = "generate",
                                     !.auto_open = ~cli.output /\ ~cli.gist]
               /\ pc' = IF cli.cmd = "web" THEN "start_data" ELSE "start"
    /\ UNCHANGED cli_frame

\* the command up to the call of the generator: local returns when there
\* is no session to convert or none is selected, web raises ClickException
\* when credentials, the request or the selection fail; then auto_open and
\* the output directory are settled
CliBegin ==
    /\ cli.at = "begin"
    /\ pc = "idle"
    /\ \E found \in BOOLEAN :
          IF ~found /\ cli.cmd = "local"
          THEN cli' = [cli EXCEPT !.at = "returned"] /\ pc' = pc
          ELSE IF ~found /\ cli.cmd = "web"
          THEN cli' = [cli EXCEPT !.at = "failed"] /\ pc' = pc
          ELSE /\ cli' = [cli EXCEPT
                             !.at = "generate",
                             !.auto_open = ~cli.output /\ ~cli.gist /\ ~cli.output_auto]
               /\ pc' = IF cli.cmd = "web" THEN "start_data" ELSE "start"
    /\ UNCHANGED cli_frame

\* the generator raised: the command ends with the exception
CliRaised ==
    /\ cli.at = "generate"
    /\ pc = "raised"
    /\ cli' = [cli EXCEPT !.at = "failed"]
    /\ UNCHANGED <<pc, cli_frame>>

\* the generator returned: the session file is copied on request
CliCopy ==
    /\ cli.at = "generate"
    /\ pc = "done"
    /\ cli' = [cli EXCEPT !.copied = cli.include_json, !.at = "gist"]
    /\ UNCHANGED <<pc, cli_frame>>

\* "if gist:": inject_gist_preview_js and create_gist, which may raise
CliGist ==
    /\ cli.at = "gist"
    /\ IF cli.gist
       THEN \E outcome \in CommandOutcomes, stdout \in CliOutputs :
               LET r == create_gist(FilesOfDir, FALSE, outcome, stdout)
               IN  cli' = [cli EXCEPT
                             !.injected = TRUE,
                             !.gist_result = <<r>>,
                             !.at = IF r.raised = None THEN "open" ELSE "failed"]
       ELSE cli' = [cli EXCEPT !.at = "open"]
    /\ UNCHANGED <<pc, cli_frame>>

\* "if open_browser or auto_open:", the last statement of the command
CliOpen ==
    /\ cli.at = "open"
    /\ cli' = [cli EXCEPT
                  !.browser = IF cli.open_browser \/ cli.auto_open
                              THEN Append(@, IndexUrl) ELSE @,
                  !.at = "end"]
    /\ UNCHANGED <<pc, cli_frame>>

NextCli ==
    \/ CliBegin
    \/ Next
    \/ LoadData
    \/ CliRaised
    \/ CliCopy
    \/ CliGist
    \/ CliOpen

SpecCli == InitCli /\ [][NextCli]_vars

----------------------------------------------------------------------------
(* Vocabulary of the properties *)

\* a prompt entry: a user entry whose content is a string with a
\* non-whitespace character
PromptEntry(e) ==
    /\ e.type = "user"
    /\ ~e.message.empty
    /\ e.message.ckind = "str"
    /\ \E k \in DOMAIN e.message.str : e.message.str[k] # SP

\* the entries the segmentation loop has consumed
Consumed ==
    IF pc = "start" THEN <<>>
    ELSE IF pc = "segment" THEN SubSeq(loglines, 1, entry_idx)
    ELSE loglines

\* the conversations built so far, the open one included
Built ==
    IF pc = "segment" THEN conversations \o current_conv ELSE conversations

Segmented == pc \notin {"start", "segment", "raised"}

RECURSIVE PromptPositions(_, _)
\* the positions k..Len(entries) that hold a prompt entry, ascending
PromptPositions(entries, k) ==
    IF k > Len(entries) THEN <<>>
    ELSE (IF PromptEntry(entries[k]) THEN <<k>> ELSE <<>>)
         \o PromptPositions(entries, k + 1)

FromFirstPrompt(entries) ==
    LET ps == PromptPositions(entries, 1)
    IN  IF ps = <<>> THEN <<>> ELSE SubSeq(entries, ps[1], Len(entries))

EntryTuple(e) == <<e.type, [json |-> e.message], e.timestamp>>

TuplesOf(entries) == [k \in DOMAIN entries |-> EntryTuple(entries[k])]

MessagesOf(convs) == Flatten([k \in DOMAIN convs |-> convs[k].messages])

\* every conversation opens with a prompt and holds no other prompt
OnePromptEach(convs) ==
    \A j \in DOMAIN convs :
        \A k \in DOMAIN convs[j].messages :
            LET m == convs[j].messages[k]
            IN  (k = 1) <=> PromptEntry([type |-> m[1], message |-> m[2].json])

----------------------------------------------------------------------------
(* C1 as stated: every entry from the first prompt on belongs to exactly   *)
(* one conversation, and the conversations' message ranges are contiguous, *)
(* in input order, without gaps or overlaps: the messages of the           *)
(* conversations, concatenated, are the entries from the first prompt on.  *)
C1_AsStated ==
    /\ MessagesOf(Built) = TuplesOf(FromFirstPrompt(Consumed))
    /\ OnePromptEach(Built)

(* C1 amended: the same for the entries that carry a non-empty message;    *)
(* an entry whose message is missing or empty belongs to no conversation,  *)
(* and neither does an entry before the first prompt.                      *)
C1_Segmentation ==
    /\ MessagesOf(Built) =
          TuplesOf(SelectSeq(FromFirstPrompt(Consumed), LAMBDA e : ~e.message.empty))
    /\ OnePromptEach(Built)

\* two conversations, an entry dropped before the first prompt, and an
\* entry without message skipped inside a conversation
C1_Witness ==
    /\ Segmented
    /\ Len(conversations) >= 2
    /\ ~PromptEntry(loglines[1]) /\ ~loglines[1].message.empty
    /\ \E k \in 2..Len(loglines) : loglines[k].message.empty
    /\ Len(MessagesOf(conversations)) = Len(loglines) - 2

----------------------------------------------------------------------------
(* C2: every conversation has a non-empty user_text equal to the string    *)
(* content of the user entry that opened it (the j-th conversation is      *)
(* opened by the j-th prompt entry), that entry is its first message, and  *)
(* is_continuation is that entry's isCompactSummary flag.                  *)
C2_ConversationFields ==
    LET ps == PromptPositions(Consumed, 1)
    IN  /\ Len(Built) = Len(ps)
        /\ \A j \in DOMAIN Built :
              LET e == Consumed[ps[j]]
              IN  /\ Built[j].user_text # <<>>
                  /\ Built[j].user_text = e.message.str
                  /\ Built[j].messages[1] = EntryTuple(e)
                  /\ Built[j].is_continuation = e.isCompactSummary

\* a continuation and a plain conversation have both been built
C2_Witness ==
    /\ Segmented
    /\ \E j \in DOMAIN conversations : conversations[j].is_continuation
    /\ \E j \in DOMAIN conversations :
          /\ ~conversations[j].is_continuation
          /\ Len(conversations[j].messages) >= 2

----------------------------------------------------------------------------
PagesWritten == pc \in {"timeline", "index", "done"}

CeilDiv(n, d) == IF n % d = 0 THEN n \div d ELSE (n \div d) + 1

\* the page conversation i (0-based) belongs to
PageOf(i) == (i \div PROMPTS_PER_PAGE) + 1

Renders(m) == render_message(m[1], m[2], m[3], module_github_repo) # <<>>

Unwrapped(html) ==
    IF html[1].frag = "details-continuation" THEN html[1].body ELSE html

(* C3: for N conversations the run writes ceil(N/5) page files (none for   *)
(* N = 0); conversation i (0-based) is rendered on page floor(i/5)+1 and   *)
(* on no other page; on every page the conversations and their messages    *)
(* appear in original order, each rendered message once.                   *)
C3_Pagination ==
    PagesWritten =>
        /\ DOMAIN page_files = 1..CeilDiv(Len(conversations), PROMPTS_PER_PAGE)
        /\ \A p \in DOMAIN page_files :
              LET h == page_files[p].messages_html
              IN  /\ \A x \in DOMAIN h : PageOf(h[x].conv) = p
                  /\ \A x, y \in DOMAIN h :
                        x < y => \/ h[x].conv < h[y].conv
                                 \/ h[x].conv = h[y].conv /\ h[x].msg < h[y].msg
        /\ \A j \in DOMAIN conversations :
              \A k \in DOMAIN conversations[j].messages :
                  LET m == conversations[j].messages[k]
                      h == page_files[PageOf(j - 1)].messages_html
                  IN  Renders(m) =>
                        \E x \in DOMAIN h :
                            /\ h[x].conv = j - 1
                            /\ h[x].msg = k
                            /\ Unwrapped(h[x].html) =
                                 render_message(m[1], m[2], m[3], module_github_repo)

\* a full page followed by a partial one that holds a conversation of
\* several messages
C3_Witness ==
    /\ PagesWritten
    /\ Len(conversations) > PROMPTS_PER_PAGE
    /\ Len(conversations) % PROMPTS_PER_PAGE # 0
    /\ DOMAIN page_files = 1..2
    /\ \E x \in DOMAIN page_files[2].messages_html :
          page_files[2].messages_html[x].msg >= 2

----------------------------------------------------------------------------
\* a new user prompt in plain text: neither a continuation summary nor
\* hook feedback
OrdinaryPrompt(e) ==
    /\ PromptEntry(e)
    /\ e.isCompactSummary = FALSE
    /\ e.message.str[1] # HOOK_MARKER

AssistantTextReply(e) ==
    /\ e.type = "assistant"
    /\ ~e.message.empty
    /\ e.message.ckind = "list"
    /\ Len(e.message.list) = 1
    /\ e.message.list[1].type = "text"

OnePromptSession ==
    /\ Len(session) = 2
    /\ OrdinaryPrompt(session[1])
    /\ AssistantTextReply(session[2])

----------------------------------------------------------------------------
ArrayUser(e) ==
    /\ e.type = "user"
    /\ ~e.message.empty
    /\ e.message.ckind = "list"

----------------------------------------------------------------------------
ArrayPromptSession ==
    /\ Len(session) = 2
    /\ ArrayUser(session[1])
    /\ Len(session[1].message.list) = 1
    /\ session[1].message.list[1].type = "text"
    /\ session[1].message.list[1].text.len > 0
    /\ AssistantTextReply(session[2])

(* C6: a session whose first user message carries its prompt as an array   *)
(* holding one text block, followed by an assistant reply, is recognised   *)
(* as a prompt: the index reports 1 prompt and page-001.html is written.   *)
C6_ArrayPromptRecognised ==
    (pc = "done" /\ ArrayPromptSession) =>
        /\ index_file[1].prompt_num = 1
        /\ 1 \in DOMAIN page_files

----------------------------------------------------------------------------
(* Vocabulary of the index properties *)

\* a conversation that gets a prompt entry: neither a continuation nor
\* hook feedback
Eligible(c) ==
    /\ ~c.is_continuation
    /\ c.user_text[1] # HOOK_MARKER

\* the texts of the text blocks of a conversation's messages
TextsOf(c) ==
    UNION { LET md == c.messages[k][2].json
            IN  IF md.ckind # "list" THEN {}
                ELSE {md.list[b].text : b \in {x \in DOMAIN md.list : md.list[x].type = "text"}}
          : k \in DOMAIN c.messages }

PromptItems == SelectSeq(timeline_items, LAMBDA it : it.kind = "prompt")

\* the texts shown as excerpts anywhere on the index
Excerpts == UNION {Range(PromptItems[k].item.long_texts) : k \in DOMAIN PromptItems}

RECURSIVE Opener(_)
\* the conversation (1-based) that opens the run of continuations
\* conversation j closes: the nearest non-continuation at or before j, 0 if none
Opener(j) ==
    IF j = 0 THEN 0
    ELSE IF ~conversations[j].is_continuation THEN j
    ELSE Opener(j - 1)

Attributed(j) == Opener(j) # 0 /\ Eligible(conversations[Opener(j)])

RECURSIVE NearestEligible(_)
\* the nearest eligible conversation at or before j, 0 if none
NearestEligible(j) ==
    IF j = 0 THEN 0
    ELSE IF Eligible(conversations[j]) THEN j
    ELSE NearestEligible(j - 1)

Rank(j) == Cardinality({i \in 1..j : Eligible(conversations[i])})

\* the excerpts of the index entry of eligible conversation j
ExcerptsOf(j) ==
    UNION {Range(PromptItems[k].item.long_texts) :
             k \in {x \in DOMAIN PromptItems : PromptItems[x].item.num = Rank(j)}}

(* C7 as stated: a text block of 299 characters is never among the index   *)
(* excerpts and a text block of 300 characters always is, whatever         *)
(* conversation its message belongs to.                                    *)
C7_AsStated ==
    pc = "done" =>
        \A j \in DOMAIN conversations :
            \A t \in TextsOf(conversations[j]) :
                /\ t.len = 299 => t \notin Excerpts
                /\ t.len = 300 => t \in Excerpts

(* C7 amended: a text block of 299 characters is never among the index     *)
(* excerpts; a text block of 300 characters is among them exactly when its *)
(* message belongs to an eligible prompt's conversation or to a            *)
(* continuation in the unbroken run of continuations that follows one.     *)
C7_Threshold ==
    pc = "done" =>
        \A j \in DOMAIN conversations :
            \A t \in TextsOf(conversations[j]) :
                /\ t.len = 299 => t \notin Excerpts
                /\ t.len = 300 => (t \in Excerpts <=> Attributed(j))

\* 300 characters shown for an eligible prompt and through a continuation,
\* 300 characters of a hook-feedback conversation not shown
C7_Witness ==
    /\ pc = "done"
    /\ \E j \in DOMAIN conversations :
          /\ conversations[j].is_continuation
          /\ \E t \in TextsOf(conversations[j]) : t.len = 300 /\ t \in Excerpts
    /\ \E j \in DOMAIN conversations :
          /\ ~Eligible(conversations[j]) /\ ~conversations[j].is_continuation
          /\ \E t \in TextsOf(conversations[j]) : t.len = 300 /\ t \notin Excerpts

----------------------------------------------------------------------------
LongTextsOf(c) == {t \in TextsOf(c) : t.len >= LONG_TEXT_THRESHOLD}

\* conversation j has no prompt entry: the prompt entries are numbered
\* 1..k for the k eligible conversations and none carries j's timestamp
NoOwnEntry(j) ==
    /\ Len(PromptItems) = Rank(Len(conversations))
    /\ \A k \in DOMAIN PromptItems :
          /\ PromptItems[k].item.num \in 1..Rank(Len(conversations))
          /\ PromptItems[k].item.link.msg_id # make_msg_id(conversations[j].timestamp)

(* C8 as stated: a continuation conversation gets no prompt number and no  *)
(* timeline entry of its own, and every long-text excerpt of its messages  *)
(* appears in the index entry of the nearest preceding eligible prompt.    *)
C8_AsStated ==
    pc = "done" =>
        \A j \in DOMAIN conversations :
            conversations[j].is_continuation =>
                /\ NoOwnEntry(j)
                /\ NearestEligible(j) # 0 =>
                      LongTextsOf(conversations[j]) \subseteq ExcerptsOf(NearestEligible(j))

(* C8 amended: a continuation conversation gets no prompt number and no    *)
(* timeline entry of its own; its long-text excerpts appear in the index   *)
(* entry of the conversation that opens its unbroken run of continuations  *)
(* when that conversation is an eligible prompt, and nowhere on the index  *)
(* otherwise.                                                              *)
C8_Continuation ==
    pc = "done" =>
        \A j \in DOMAIN conversations :
            conversations[j].is_continuation =>
                /\ NoOwnEntry(j)
                /\ IF Attributed(j)
                   THEN LongTextsOf(conversations[j]) \subseteq ExcerptsOf(Opener(j))
                   ELSE LongTextsOf(conversations[j]) \cap Excerpts = {}

\* a long text of the second continuation of a run is shown under the
\* prompt that opens the run
C8_Witness ==
    /\ pc = "done"
    /\ \E j \in DOMAIN conversations :
          /\ conversations[j].is_continuation
          /\ Attributed(j)
          /\ Opener(j) < j - 1
          /\ LongTextsOf(conversations[j]) # {}
          /\ LongTextsOf(conversations[j]) \subseteq ExcerptsOf(Opener(j))

----------------------------------------------------------------------------
IsWrapped(el) == el.html[1].frag = "details-continuation"

(* C9: on every page, for each continuation conversation the first message *)
(* that renders to non-empty output is wrapped in the continuation         *)
(* disclosure, exactly one message of it is wrapped, and no message of a   *)
(* non-continuation conversation is wrapped.                               *)
C9_ContinuationWrapped ==
    PagesWritten =>
        \A j \in DOMAIN conversations :
            LET h == page_files[PageOf(j - 1)].messages_html
                xs == {x \in DOMAIN h : h[x].conv = j - 1}
                wrapped == {x \in xs : IsWrapped(h[x])}
                rendered == {k \in DOMAIN conversations[j].messages :
                               Renders(conversations[j].messages[k])}
            IN  IF conversations[j].is_continuation
                THEN /\ Cardinality(wrapped) = 1
                     /\ \A x \in wrapped : \A k \in rendered : h[x].msg <= k
                ELSE wrapped = {}

\* a continuation with a message that renders to nothing between two that
\* render, next to a conversation that is no continuation
C9_Witness ==
    /\ PagesWritten
    /\ \E j \in DOMAIN conversations :
          /\ conversations[j].is_continuation
          /\ Len(conversations[j].messages) = 3
          /\ ~Renders(conversations[j].messages[2])
          /\ Renders(conversations[j].messages[3])
    /\ \E j \in DOMAIN conversations : ~conversations[j].is_continuation

----------------------------------------------------------------------------
\* the timeline entries in discovery order: prompts in conversation order,
\* then commits in extraction order
Discovered ==
    prompt_loop(conversations, 0, [prompt_num |-> 0, items |-> <<>>]).items
    \o commit_items(all_commits, module_github_repo)

At(items, t) == SelectSeq(items, LAMBDA it : it.timestamp = t)

(* C10: the index timeline lists all prompt and commit entries in          *)
(* ascending timestamp order, and entries of equal timestamp keep their    *)
(* discovery order: prompts in conversation order, then commits in         *)
(* extraction order.                                                       *)
C10_TimelineOrder ==
    pc = "done" =>
        /\ Len(timeline_items) = Len(Discovered)
        /\ \A a, b \in DOMAIN timeline_items :
              a < b =>
                /\ timeline_items[a].timestamp <= timeline_items[b].timestamp
                /\ timeline_items[a].timestamp = timeline_items[b].timestamp =>
                      ~(timeline_items[a].kind = "commit" /\ timeline_items[b].kind = "prompt")
        /\ \A k \in DOMAIN Discovered :
              At(timeline_items, Discovered[k].timestamp) =
                 At(Discovered, Discovered[k].timestamp)
        /\ index_file[1].index_items =
              [k \in DOMAIN timeline_items |-> timeline_items[k].item]

\* discovery order differs from timestamp order, and a prompt, and two
\* different commits, share a timestamp
C10_Witness ==
    /\ pc = "done"
    /\ timeline_items # Discovered
    /\ \E a, b \in DOMAIN timeline_items :
          /\ a < b
          /\ timeline_items[a].timestamp = timeline_items[b].timestamp
          /\ timeline_items[a].kind = "commit"
          /\ timeline_items[b].kind = "commit"
          /\ timeline_items[a].item.hash # timeline_items[b].item.hash
          /\ \E c \in DOMAIN timeline_items :
                /\ timeline_items[c].kind = "prompt"
                /\ timeline_items[c].timestamp = timeline_items[a].timestamp

----------------------------------------------------------------------------
RECURSIVE MatchesIn(_)
\* the hashes matched by COMMIT_PATTERN in the string tool_result blocks of
\* a list of blocks, in order
MatchesIn(blocks) ==
    IF blocks = <<>> THEN <<>>
    ELSE LET b == Head(blocks)
             here == IF b.type = "tool_result" /\ b.content.isstr
                     THEN LET cs == SelectSeq(b.content.segs, LAMBDA g : g.seg = "commit")
                          IN  [k \in DOMAIN cs |-> cs[k].hash]
                     ELSE <<>>
         IN  here \o MatchesIn(Tail(blocks))

MatchesOfEntry(e) ==
    IF e.message.empty \/ e.message.ckind # "list" THEN <<>>
    ELSE MatchesIn(e.message.list)

Hashes == {"abc1234", "def5678"}

\* the commit entries of the index timeline with timestamp t and hash h
CommitEntriesAt(t, h) ==
    {i \in DOMAIN timeline_items :
        /\ timeline_items[i].kind = "commit"
        /\ timeline_items[i].timestamp = t
        /\ timeline_items[i].item.hash = h
        /\ index_file[1].index_items[i] = timeline_items[i].item}

\* entry k of the session belongs to a conversation
InConversation(k) ==
    /\ ~session[k].message.empty
    /\ \E p \in 1..k : PromptEntry(session[p])

(* C11 as stated: with one timestamp per entry, the index holds for every  *)
(* entry of the session and every hash as many commit entries with the     *)
(* entry's timestamp as the entry's string tool_results hold matches of    *)
(* that hash, and no other commit entry.                                   *)
C11_AsStated ==
    pc = "done" =>
        \A k \in DOMAIN session : \A h \in Hashes :
            Cardinality(CommitEntriesAt(session[k].timestamp, h)) =
               Len(SelectSeq(MatchesOfEntry(session[k]), LAMBDA x : x = h))

(* C11 amended: the same for the entries that belong to a conversation     *)
(* (eligible, continuation or hook-feedback); a match in an entry before   *)
(* the first prompt yields no commit entry.                                *)
C11_CommitEntries ==
    pc = "done" =>
        /\ Len(index_file[1].index_items) = Len(timeline_items)
        /\ \A k \in DOMAIN session : \A h \in Hashes :
              Cardinality(CommitEntriesAt(session[k].timestamp, h)) =
                 IF InConversation(k)
                 THEN Len(SelectSeq(MatchesOfEntry(session[k]), LAMBDA x : x = h))
                 ELSE 0
        /\ \A i \in DOMAIN timeline_items :
              timeline_items[i].kind = "commit" =>
                 \E k \in DOMAIN session :
                    /\ session[k].timestamp = timeline_items[i].timestamp
                    /\ timeline_items[i].item.hash \in Hashes

\* a match before the first prompt, two matches of one hash inside a
\* continuation conversation, and a match inside a hook-feedback one
C11_Witness ==
    /\ pc = "done"
    /\ Len(session) = 5
    /\ MatchesOfEntry(session[1]) # <<>>
    /\ PromptEntry(session[2]) /\ session[2].isCompactSummary
    /\ Len(MatchesOfEntry(session[3])) = 2
    /\ PromptEntry(session[4]) /\ startswith(session[4].message.str, HOOK_MARKER)
    /\ MatchesOfEntry(session[5]) # <<>>
    /\ Cardinality({i \in DOMAIN timeline_items : timeline_items[i].kind = "commit"}) = 3

----------------------------------------------------------------------------
RawRank(name) == CHOOSE k \in DOMAIN ToolNames : ToolNames[k] = name

\* the position in the count map d of the tool listed as part
ToolOf(d, part) ==
    CHOOSE k \in DOMAIN d :
        abbrev(d[k].name) = part.short_name /\ d[k].count = part.count

\* every tool of d is listed exactly once in parts, as count and
\* abbreviated name
ListsEveryTool(d, parts) ==
    /\ Len(parts) = Len(d)
    /\ \A k \in DOMAIN d :
          Cardinality({i \in DOMAIN parts :
              parts[i] = [count |-> d[k].count, short_name |-> abbrev(d[k].name)]}) = 1
    /\ d = <<>> => parts = <<>>

(* C12 as stated: format_tool_stats lists every tool once, by descending   *)
(* count, and tools of equal count by raw name.                            *)
C12_AsStated ==
    (call.fn = "format_tool_stats" /\ call.returned) =>
        LET d == call.args[1]
        IN  /\ ListsEveryTool(d, call.ret)
            /\ \A i, j \in DOMAIN call.ret :
                  i < j =>
                    LET a == d[ToolOf(d, call.ret[i])]
                        b == d[ToolOf(d, call.ret[j])]
                    IN  \/ a.count > b.count
                        \/ a.count = b.count /\ RawRank(a.name) < RawRank(b.name)

(* C12 amended: format_tool_stats lists every tool of the count map once   *)
(* as count and abbreviated name, by descending count, and tools of equal  *)
(* count in the order in which the map holds them (insertion order); the   *)
(* empty map gives the empty string.                                       *)
C12_ToolStats ==
    (call.fn = "format_tool_stats" /\ call.returned) =>
        LET d == call.args[1]
        IN  /\ ListsEveryTool(d, call.ret)
            /\ \A i, j \in DOMAIN call.ret :
                  i < j =>
                    LET a == ToolOf(d, call.ret[i])
                        b == ToolOf(d, call.ret[j])
                    IN  \/ d[a].count > d[b].count
                        \/ d[a].count = d[b].count /\ a < b

\* three tools: two of equal count, inserted against the order of their
\* names, ahead of one with a larger count
C12_Witness ==
    /\ call.fn = "format_tool_stats"
    /\ call.returned
    /\ Len(call.args[1]) = 3
    /\ LET d == call.args[1]
       IN  /\ d[1].count = d[2].count
           /\ RawRank(d[1].name) > RawRank(d[2].name)
           /\ d[3].count > d[1].count
           /\ call.ret[1].short_name = abbrev(d[3].name)
           /\ call.ret[2].short_name = abbrev(d[1].name)

----------------------------------------------------------------------------
(* C13: parsing a .jsonl file never raises an error on account of one of   *)
(* its lines, be it blank, no JSON, or JSON of an unexpected shape.        *)
C13_NoLineError ==
    suffix = ".jsonl" => pc # "raised"

----------------------------------------------------------------------------
MessageTypes == {"user", "assistant"}

\* the lines of the file that hold an object of type user or assistant
MessageLines ==
    SelectSeq(session, LAMBDA l :
        l.kind = "object" /\ get(l.value, "type", None) \in MessageTypes)

Parsed == suffix = ".jsonl" /\ pc \notin {"start", "raised"}

(* C14: whenever the parse of a .jsonl file returns, loglines holds one    *)
(* entry for each line of type user or assistant, in file order, with the  *)
(* keys type, timestamp and message (a missing timestamp as "", a missing  *)
(* message as {}), and the key isCompactSummary, with value True, exactly  *)
(* when it is truthy in the line; no entry has another type.               *)
C14_JsonlLoglines ==
    Parsed =>
        /\ Len(loglines) = Len(MessageLines)
        /\ \A k \in DOMAIN loglines :
              LET o == MessageLines[k].value
                  e == loglines[k]
                  flagged == "isCompactSummary" \in DOMAIN o /\ o.isCompactSummary = TRUE
              IN  /\ DOMAIN e = {"type", "timestamp", "message"}
                                \cup (IF flagged THEN {"isCompactSummary"} ELSE {})
                  /\ e.type = o.type
                  /\ e.type \in MessageTypes
                  /\ e.timestamp = IF "timestamp" \in DOMAIN o THEN o.timestamp
                                   ELSE EmptyTimestamp
                  /\ e.message = IF "message" \in DOMAIN o THEN o.message
                                 ELSE EmptyMessage
                  /\ flagged => e.isCompactSummary = TRUE

\* a summary record is dropped, a flagged prompt keeps its flag and loses
\* its other keys, and an assistant line with a false flag loses it
C14_Witness ==
    /\ Parsed
    /\ Len(session) = 3
    /\ session[1].kind = "object" /\ session[1].value.type = "summary"
    /\ Len(loglines) = 2
    /\ "uuid" \in DOMAIN session[2].value
    /\ "isCompactSummary" \in DOMAIN loglines[1]
    /\ "isCompactSummary" \in DOMAIN session[3].value
    /\ "isCompactSummary" \notin DOMAIN loglines[2]

----------------------------------------------------------------------------
RECURSIVE segment_all(_, _)
\* the segmentation loop and its flush, run over a whole list of entries
segment_all(entries, st) ==
    IF entries = <<>>
    THEN (IF st.cur # <<>> THEN st.convs \o st.cur ELSE st.convs)
    ELSE segment_all(Tail(entries), segment_entry(st, entry_view(Head(entries))))

\* the session of the .jsonl file as a plain-JSON document: its loglines
\* are the objects of the file's lines, as they are
JsonDocument ==
    LET objs == SelectSeq(session, LAMBDA l : l.kind = "object")
    IN  [k \in DOMAIN objs |-> objs[k].value]

\* the conversations of the run over the plain-JSON document
JsonConversations ==
    segment_all(parse_session_file(".json", JsonDocument).loglines,
                [convs |-> <<>>, cur |-> <<>>])

(* C15 as stated: the conversations built from a .jsonl file are those     *)
(* built from the plain-JSON document that holds the same objects.         *)
C15_AsStated ==
    (suffix = ".jsonl" /\ Segmented) => conversations = JsonConversations

\* every object that carries a non-empty message is of type user or
\* assistant
OnlyMessageEntries ==
    \A k \in DOMAIN JsonDocument :
        LET o == JsonDocument[k]
        IN  ~get(o, "message", EmptyMessage).empty =>
                get(o, "type", None) \in MessageTypes

(* C15 amended: the same, for a session in which every entry that carries  *)
(* a non-empty message is of type user or assistant: the conversations of  *)
(* the two runs have the same prompts, messages, timestamps and            *)
(* continuation flags.                                                     *)
C15_SameConversations ==
    (suffix = ".jsonl" /\ Segmented /\ OnlyMessageEntries) =>
        conversations = JsonConversations

\* a summary record without message, then a continuation prompt and a reply
C15_Witness ==
    /\ suffix = ".jsonl"
    /\ Segmented
    /\ OnlyMessageEntries
    /\ Len(JsonDocument) = 3
    /\ JsonDocument[1].type = "summary"
    /\ Len(conversations) = 1
    /\ conversations[1].is_continuation
    /\ Len(conversations[1].messages) = 2

----------------------------------------------------------------------------
SummaryCall == call.fn = "get_session_summary" /\ call.returned

Budget == call.args[1]

Least(S) == CHOOSE x \in S : \A y \in S : x <= y

\* the objects of the file, in order: of its lines, or of its loglines
FileObjects ==
    IF suffix = ".jsonl"
    THEN LET objs == SelectSeq(session, LAMBDA l : l.kind = "object")
         IN  [k \in DOMAIN objs |-> objs[k].value]
    ELSE session

IsSummaryRecord(o) ==
    get(o, "type", None) = "summary" /\ get(o, "summary", <<>>) # <<>>

\* a user message with a string content that holds a non-blank character
IsUserText(o) ==
    /\ get(o, "type", None) = "user"
    /\ get(o, "message", EmptyMessage).ckind = "str"
    /\ \E k \in DOMAIN o.message.str : o.message.str[k] # SP

\* ... that is neither meta nor tag-like
IsNonSystemUserText(o) ==
    /\ IsUserText(o)
    /\ ~(get(o, "isMeta", FALSE) = TRUE)
    /\ Head(strip(o.message.str)) # LT

EndsWithEllipsis(r) ==
    Len(r) >= 3 /\ SubSeq(r, Len(r) - 2, Len(r)) = ELLIPSIS

\* r is the text t, or a cut of a text t that is longer than the budget:
\* leading characters of t and then the ellipsis
IsTextOrCut(r, t) ==
    IF Len(t) <= Budget THEN r = t
    ELSE /\ EndsWithEllipsis(r)
         /\ Len(r) - 3 <= Len(t)
         /\ SubSeq(r, 1, Len(r) - 3) = SubSeq(t, 1, Len(r) - 3)

Selected ==
    IF suffix = ".jsonl"
    THEN LET recs == {k \in DOMAIN session :
                         session[k].kind = "object" /\ IsSummaryRecord(session[k].value)}
             bad == {k \in DOMAIN session : session[k].kind = "nonobject"}
             users == SelectSeq(FileObjects, IsNonSystemUserText)
         IN  IF recs # {} /\ (bad = {} \/ Least(recs) < Least(bad))
             THEN <<session[Least(recs)].value.summary>>
             ELSE IF bad # {} THEN <<>>
             ELSE IF users # <<>> THEN <<strip(users[1].message.str)>>
             ELSE <<>>
    ELSE LET users == SelectSeq(FileObjects, IsUserText)
         IN  IF users # <<>> THEN <<users[1].message.str>> ELSE <<>>

----------------------------------------------------------------------------
(* C17 as stated: for every budget, a selected text longer than the budget *)
(* gives a result of exactly the budget's length that ends with "...",     *)
(* and a text within the budget is returned as it is.                      *)
C17_AsStated ==
    (SummaryCall /\ Selected # <<>>) =>
        IF Len(Selected[1]) > Budget
        THEN Len(call.ret) = Budget /\ EndsWithEllipsis(call.ret)
        ELSE call.ret = Selected[1]

(* C17 amended: the same for every budget of at least 3 characters; the    *)
(* result is then the first max_length - 3 characters of the text and the  *)
(* ellipsis.                                                               *)
C17_Truncation ==
    (SummaryCall /\ Selected # <<>> /\ Budget >= 3) =>
        IF Len(Selected[1]) > Budget
        THEN /\ Len(call.ret) = Budget
             /\ call.ret = SubSeq(Selected[1], 1, Budget - 3) \o ELLIPSIS
        ELSE call.ret = Selected[1]

\* a text of five characters cut to a budget of four
C17_Witness ==
    /\ SummaryCall
    /\ Selected # <<>>
    /\ Budget = 4
    /\ Len(Selected[1]) = 5
    /\ Len(call.ret) = 4
    /\ call.ret[1] = Selected[1][1]

----------------------------------------------------------------------------
BlockCall == call.fn = "render_content_block" /\ call.returned

(* C18: render_content_block renders an image block as an image tag with   *)
(* a data URI, not as the pretty-printed JSON of unrecognised blocks.      *)
C18_ImageTag ==
    (BlockCall /\ call.args[1].type = "image") =>
        /\ \E k \in DOMAIN call.ret : call.ret[k].frag = "img"
        /\ \A k \in DOMAIN call.ret : call.ret[k].frag # "pre-json"

----------------------------------------------------------------------------
\* the positions of the commit matches in the segments of a string
MatchPositions(segs) == {p \in DOMAIN segs : segs[p].seg = "commit"}

\* the j-th match position, 0 for j = 0 and Len(segs) + 1 past the last
MatchPos(segs, j) ==
    IF j = 0 THEN 0
    ELSE IF j > Cardinality(MatchPositions(segs)) THEN Len(segs) + 1
    ELSE CHOOSE p \in MatchPositions(segs) :
            Cardinality({q \in MatchPositions(segs) : q <= p}) = j

\* the text between match j and match j + 1
Stretch(segs, j) == SubSeq(segs, MatchPos(segs, j) + 1, MatchPos(segs, j + 1) - 1)

NonBlank(run) == \E k \in DOMAIN run : ~run[k].blank

\* what C19 expects for k >= 1 matches: for j = 0..k the preformatted
\* stretch j if it is not blank, then the card of match j + 1
ExpectedParts(segs, repo) ==
    LET k == Cardinality(MatchPositions(segs))
    IN  Flatten([i \in 1..(k + 1) |->
            (IF NonBlank(Stretch(segs, i - 1))
             THEN <<[frag |-> "pre", body |-> Stretch(segs, i - 1)]>> ELSE <<>>)
            \o (IF i <= k
                THEN <<[frag |-> "commit_card",
                        body |-> <<segs[MatchPos(segs, i)].hash, repo>>]>>
                ELSE <<>>)])

(* C19: the rendering of a tool_result with string content and k >= 1      *)
(* commit matches holds the k commit cards in match order and, in their    *)
(* place before, between and after the cards, one preformatted segment for *)
(* each stretch of text that is not blank; with k = 0 it holds one         *)
(* preformatted block of the whole string; the is_error flag is passed on  *)
(* beside the segments and changes none of them.                           *)
C19_ToolResultParts ==
    (BlockCall /\ call.args[1].type = "tool_result" /\ call.args[1].content.isstr) =>
        LET segs == call.args[1].content.segs
        IN  /\ Len(call.ret) = 1
            /\ call.ret[1].frag = "tool_result"
            /\ call.ret[1].body[2] = call.args[1].is_error
            /\ call.ret[1].body[1] =
                  IF MatchPositions(segs) = {}
                  THEN <<[frag |-> "pre", body |-> segs]>>
                  ELSE ExpectedParts(segs, module_github_repo)

\* an error result: text, a match, blank text, another match
C19_Witness ==
    /\ BlockCall
    /\ call.args[1].type = "tool_result"
    /\ call.args[1].content.isstr
    /\ call.args[1].is_error
    /\ LET segs == call.args[1].content.segs
       IN  /\ Len(segs) = 4
           /\ segs[1].seg = "lit" /\ ~segs[1].blank
           /\ segs[2].seg = "commit"
           /\ segs[3].seg = "lit" /\ segs[3].blank
           /\ segs[4].seg = "commit" /\ segs[4].hash # segs[2].hash
    /\ Len(call.ret[1].body[1]) = 3

----------------------------------------------------------------------------
\* a block that renders to nothing: a TodoWrite call with an empty list
EmptyBlock(b) == b.type = "tool_use" /\ b.name = "TodoWrite" /\ b.todos = <<>>

\* a message tuple whose rendered content is empty: its type is neither
\* user nor assistant, or it is an assistant message whose blocks, if any,
\* all render to nothing
EmptyContent(m) ==
    \/ m[1] \notin {"user", "assistant"}
    \/ /\ m[1] = "assistant"
       /\ m[2].json.ckind # "str"
       /\ \A b \in DOMAIN m[2].json.list : EmptyBlock(m[2].json.list[b])

\* the cards of message k of conversation j (1-based) on all pages
CardsOf(j, k) ==
    {<<p, x>> \in {<<p, x>> : p \in DOMAIN page_files, x \in 1..Len(loglines)} :
        /\ x \in DOMAIN page_files[p].messages_html
        /\ page_files[p].messages_html[x].conv = j - 1
        /\ page_files[p].messages_html[x].msg = k}

(* C20: a message whose rendered content is empty (an assistant message    *)
(* whose only block is a TodoWrite call with an empty list, an entry whose *)
(* type is neither user nor assistant) has no card on any page, while the  *)
(* entry is a message of its conversation and is counted as one.           *)
C20_NoEmptyCard ==
    PagesWritten =>
        /\ \A j \in DOMAIN conversations :
              \A k \in DOMAIN conversations[j].messages :
                  EmptyContent(conversations[j].messages[k]) => CardsOf(j, k) = {}
        /\ \A i \in DOMAIN loglines :
              (/\ ~loglines[i].message.empty
               /\ \E p \in 1..i : PromptEntry(loglines[p])
               /\ EmptyContent(EntryTuple(loglines[i])))
              => \E j \in DOMAIN conversations :
                    \E k \in DOMAIN conversations[j].messages :
                        conversations[j].messages[k] = EntryTuple(loglines[i])
        /\ pc = "done" =>
              index_file[1].total_messages = Len(MessagesOf(conversations))

\* a conversation of a prompt, an empty TodoWrite call and an entry of
\* another type: three messages, one card
C20_Witness ==
    /\ pc = "done"
    /\ Len(conversations) = 1
    /\ Len(conversations[1].messages) = 3
    /\ \E k \in 2..3 :
          /\ conversations[1].messages[k][1] = "assistant"
          /\ EmptyContent(conversations[1].messages[k])
    /\ \E k \in 2..3 : conversations[1].messages[k][1] = "system"
    /\ Len(page_files[1].messages_html) = 1
    /\ index_file[1].total_messages = 3

----------------------------------------------------------------------------
IsHook(c) == c.user_text[1] = HOOK_MARKER

\* conversation j (1-based) has all its rendered messages, in order, on
\* page floor((j-1)/5)+1
RenderedOnItsPage(j) ==
    LET h == page_files[PageOf(j - 1)].messages_html
        mine == SelectSeq(h, LAMBDA e : e.conv = j - 1)
        shown == {k \in DOMAIN conversations[j].messages :
                     Renders(conversations[j].messages[k])}
    IN  /\ PageOf(j - 1) \in DOMAIN page_files
        /\ Len(mine) = Cardinality(shown)
        /\ \A k \in shown : \E x \in DOMAIN mine : mine[x].msg = k
        /\ \A p \in DOMAIN page_files :
              p # PageOf(j - 1) =>
                 \A x \in DOMAIN page_files[p].messages_html :
                    page_files[p].messages_html[x].conv # j - 1

\* the prompt entries of the index for the conversation with timestamp t
PromptItemsAt(t) == SelectSeq(PromptItems, LAMBDA it : it.timestamp = t)

(* C21: a conversation whose prompt starts with the hook-feedback marker   *)
(* takes one of the five places of its page and has all its messages       *)
(* rendered there, but has no prompt number and no prompt entry on the     *)
(* index; the eligible prompts are numbered 1..k in conversation order.    *)
C21_HookConversations ==
    pc = "done" =>
        /\ DOMAIN page_files = 1..CeilDiv(Len(conversations), PROMPTS_PER_PAGE)
        /\ \A j \in DOMAIN conversations :
              LET c == conversations[j]
              IN  /\ IsHook(c) => /\ RenderedOnItsPage(j)
                                  /\ PromptItemsAt(c.timestamp) = <<>>
                  /\ Eligible(c) =>
                        /\ Len(PromptItemsAt(c.timestamp)) = 1
                        /\ PromptItemsAt(c.timestamp)[1].item.num = Rank(j)
        /\ Len(PromptItems) =
              Cardinality({j \in DOMAIN conversations : Eligible(conversations[j])})
        /\ \A x \in DOMAIN PromptItems : PromptItems[x].item.num = x
        /\ index_file[1].prompt_num = Len(PromptItems)

\* six conversations: a hook-feedback one among the first five, so that
\* the sixth, an eligible one numbered below 6, is on page 2
C21_Witness ==
    /\ pc = "done"
    /\ Len(conversations) = 6
    /\ \E j \in 1..5 : IsHook(conversations[j])
    /\ Eligible(conversations[6])
    /\ DOMAIN page_files = 1..2
    /\ page_files[2].messages_html # <<>>
    /\ PromptItemsAt(conversations[6].timestamp)[1].item.num < 6

----------------------------------------------------------------------------
\* the tool_use blocks of the messages of all conversations
ToolUseBlocks ==
    {<<j, k, b>> \in {<<j, k, b>> : j \in DOMAIN conversations,
                                    k \in 1..Len(loglines), b \in 1..4} :
        /\ k \in DOMAIN conversations[j].messages
        /\ conversations[j].messages[k][2].json.ckind = "list"
        /\ b \in DOMAIN conversations[j].messages[k][2].json.list
        /\ conversations[j].messages[k][2].json.list[b].type = "tool_use"}

CommitItems == SelectSeq(timeline_items, LAMBDA it : it.kind = "commit")

(* C22: the totals on the index agree with the segmentation: the prompt    *)
(* count is the number of prompt entries and of eligible conversations,    *)
(* the message count the sum of the conversations' message counts, the     *)
(* tool-call count the number of tool_use blocks in their messages, the    *)
(* commit count the number of commit entries, and the page count the       *)
(* number of page files written.                                           *)
C22_Totals ==
    pc = "done" =>
        LET ix == index_file[1]
        IN  /\ ix.prompt_num = Len(PromptItems)
            /\ ix.prompt_num =
                  Cardinality({j \in DOMAIN conversations : Eligible(conversations[j])})
            /\ ix.total_messages = Len(MessagesOf(conversations))
            /\ ix.total_tool_calls = Cardinality(ToolUseBlocks)
            /\ ix.total_commits = Len(CommitItems)
            /\ ix.total_pages = Cardinality(DOMAIN page_files)
            /\ Len(ix.index_items) = ix.prompt_num + ix.total_commits

\* fewer prompts than conversations, the same tools called in two
\* conversations, and a commit
C22_Witness ==
    /\ pc = "done"
    /\ index_file[1].total_pages = 1
    /\ index_file[1].prompt_num < Len(conversations)
    /\ index_file[1].prompt_num > 0
    /\ index_file[1].total_tool_calls = 6
    /\ \E i, j \in DOMAIN conversations :
          /\ i # j
          /\ \E t \in ToolUseBlocks : t[1] = i
          /\ \E t \in ToolUseBlocks : t[1] = j
    /\ index_file[1].total_commits >= 1

----------------------------------------------------------------------------
\* the pages that hold a card of conversation j (1-based)
PagesHolding(j) ==
    {p \in DOMAIN page_files :
        \E x \in DOMAIN page_files[p].messages_html :
            page_files[p].messages_html[x].conv = j - 1}

(* C26: for every eligible prompt the page of its index link is the one    *)
(* page file that holds the conversation's messages, and the anchor of     *)
(* the link is the id of the prompt's card there, whatever continuation    *)
(* and hook-feedback conversations stand before it.                        *)
C26_DeepLinks ==
    pc = "done" =>
        \A j \in DOMAIN conversations :
            Eligible(conversations[j]) =>
                LET it == PromptItemsAt(conversations[j].timestamp)[1].item
                IN  /\ PagesHolding(j) = {it.link.page}
                    /\ \E x \in DOMAIN page_files[it.link.page].messages_html :
                          LET e == page_files[it.link.page].messages_html[x]
                          IN  /\ e.conv = j - 1
                              /\ e.msg = 1
                              /\ e.html[1].frag = "message"
                              /\ e.html[1].body[2] = it.link.msg_id

\* the sixth conversation is the second eligible one, behind continuation
\* and hook-feedback conversations, and its link leads to page 2
C26_Witness ==
    /\ pc = "done"
    /\ Len(conversations) = 6
    /\ \E j \in 2..5 : conversations[j].is_continuation
    /\ \E j \in 2..5 : IsHook(conversations[j])
    /\ Eligible(conversations[1])
    /\ Eligible(conversations[6])
    /\ PromptItemsAt(conversations[6].timestamp)[1].item.num = 2
    /\ PromptItemsAt(conversations[6].timestamp)[1].item.link.page = 2

----------------------------------------------------------------------------
\* the long text blocks of the messages of all conversations
LongTextBlocks ==
    {<<j, k, b>> \in {<<j, k, b>> : j \in DOMAIN conversations,
                                    k \in 1..Len(loglines), b \in 1..4} :
        /\ k \in DOMAIN conversations[j].messages
        /\ conversations[j].messages[k][2].json.ckind = "list"
        /\ b \in DOMAIN conversations[j].messages[k][2].json.list
        /\ conversations[j].messages[k][2].json.list[b].type = "text"
        /\ conversations[j].messages[k][2].json.list[b].text.len >= LONG_TEXT_THRESHOLD}

\* the conversations of the run that conversation j opens
RunOf(j) == {k \in DOMAIN conversations : Opener(k) = j}

RECURSIVE SumCounts(_)
SumCounts(stats) ==
    IF stats = <<>> THEN 0 ELSE Head(stats).count + SumCounts(Tail(stats))

RECURSIVE SumExcerpts(_)
SumExcerpts(items) ==
    IF items = <<>> THEN 0
    ELSE Len(Head(items).item.long_texts) + SumExcerpts(Tail(items))

RECURSIVE SumToolCalls(_)
SumToolCalls(items) ==
    IF items = <<>> THEN 0
    ELSE SumCounts(Head(items).item.tool_stats) + SumToolCalls(Tail(items))

(* C27: the analysis of the entry of an eligible prompt covers exactly the *)
(* conversations of the run it opens (itself and the unbroken run of       *)
(* continuations behind it), so a continuation is counted only under the   *)
(* opener of its run; over all entries every tool call and every long text *)
(* of an attributed conversation is counted once and those of the other    *)
(* conversations are not counted: no two entries share a conversation.     *)
C27_OneEntryPerConversation ==
    pc = "done" =>
        /\ \A j \in DOMAIN conversations :
              Eligible(conversations[j]) =>
                  LET it == PromptItemsAt(conversations[j].timestamp)[1].item
                  IN  /\ Len(it.long_texts) =
                            Cardinality({t \in LongTextBlocks : t[1] \in RunOf(j)})
                      /\ SumCounts(it.tool_stats) =
                            Cardinality({t \in ToolUseBlocks : t[1] \in RunOf(j)})
        /\ SumExcerpts(PromptItems) =
              Cardinality({t \in LongTextBlocks : Attributed(t[1])})
        /\ SumToolCalls(PromptItems) =
              Cardinality({t \in ToolUseBlocks : Attributed(t[1])})

\* two eligible prompts, each with a continuation behind it whose reply
\* calls a tool and carries a long text: each reply is counted under the
\* opener of its own run only
C27_Witness ==
    /\ pc = "done"
    /\ Len(conversations) = 4
    /\ Eligible(conversations[1])
    /\ conversations[2].is_continuation
    /\ Eligible(conversations[3])
    /\ conversations[4].is_continuation
    /\ \E t \in LongTextBlocks : t[1] = 2
    /\ \E t \in LongTextBlocks : t[1] = 4
    /\ Len(PromptItems) = 2
    /\ Len(PromptItems[1].item.long_texts) = 1
    /\ Len(PromptItems[2].item.long_texts) = 1
    /\ SumCounts(PromptItems[1].item.tool_stats) = 1

----------------------------------------------------------------------------
\* where the entries of the session file name a repository: entry, block
\* and segment of a tool result whose content is a string
RepoPositions ==
    {x \in {<<k, b, g>> : k \in DOMAIN session, b \in 1..4, g \in 1..4} :
        /\ session[x[1]].message.ckind = "list"
        /\ x[2] \in DOMAIN session[x[1]].message.list
        /\ session[x[1]].message.list[x[2]].type = "tool_result"
        /\ session[x[1]].message.list[x[2]].content.isstr
        /\ x[3] \in DOMAIN session[x[1]].message.list[x[2]].content.segs
        /\ session[x[1]].message.list[x[2]].content.segs[x[3]].repo # None}

NotAfter(x, y) ==
    \/ x[1] < y[1]
    \/ x[1] = y[1] /\ x[2] < y[2]
    \/ x[1] = y[1] /\ x[2] = y[2] /\ x[3] <= y[3]

\* the repository of the run: the argument if given, otherwise the first
\* repository named in the file in log order, otherwise none
RunRepo ==
    IF github_repo # None THEN github_repo
    ELSE IF RepoPositions = {} THEN None
    ELSE LET x == CHOOSE x \in RepoPositions : \A y \in RepoPositions : NotAfter(x, y)
         IN  session[x[1]].message.list[x[2]].content.segs[x[3]].repo

\* page p as the run writes it
PageAsWritten(p) == page_content(conversations, p, total_pages, RunRepo)

(* C23: from the first step of a generation run to its end the module-     *)
(* level repository name holds the run's value (the argument if given,     *)
(* otherwise the first repository detected in log order, otherwise none),  *)
(* so it is settled before a message is rendered and not written again;    *)
(* every page written in the run and every commit entry of its index       *)
(* carries that value, whatever the earlier runs left behind.              *)
C23_RepoOfTheRun ==
    /\ pc \notin {"start", "raised"} => module_github_repo = RunRepo
    /\ pc \in {"timeline", "index", "done"} =>
          \A p \in 1..total_pages : page_files[p] = PageAsWritten(p)
    /\ pc = "done" =>
          \A k \in DOMAIN CommitItems : CommitItems[k].item.repo = RunRepo

\* a second run without a repository, with a commit on its only page,
\* after a run whose second page, still in the directory, links its commit
\* to the repository found then
C23_Witness ==
    /\ pc = "done"
    /\ runs = 2
    /\ RunRepo = None
    /\ total_pages = 1
    /\ Len(CommitItems) = 1
    /\ 2 \in DOMAIN page_files
    /\ page_files[2] =
          page_content(segment_all(LongSession, [convs |-> <<>>, cur |-> <<>>]),
                       2, 2, "found/repo")

----------------------------------------------------------------------------
(* C29: when a generation run has ended, the page files in the output      *)
(* directory are exactly pages 1..P of that run, and there is one index    *)
(* file, whatever runs went into the directory before.                     *)
C29_OnlyPagesOfLastRun ==
    pc = "done" =>
        /\ DOMAIN page_files = 1..total_pages
        /\ Len(index_file) = 1

----------------------------------------------------------------------------
(* C30: a call of generate_html on a session file that is missing or whose *)
(* text is no JSON ends by raising in its first step, with every page      *)
(* file, the index file and the module-level repository name as they were  *)
(* before the call; the output directory is as it was or has been created. *)
C30_FailsBeforeWriting ==
    [][(pc = "start" /\ file_state # "ok") =>
          /\ pc' = "raised"
          /\ page_files' = page_files
          /\ index_file' = index_file
          /\ module_github_repo' = module_github_repo
          /\ output_dir' \in {output_dir, "present"}]_vars

\* a run on a file that is no JSON, with a repository argument, has raised
\* after a run that wrote two pages and found another repository
C30_Witness ==
    /\ pc = "raised"
    /\ runs = 2
    /\ file_state = "invalid"
    /\ github_repo = "owner/repo"
    /\ module_github_repo = "found/repo"
    /\ DOMAIN page_files = 1..2
    /\ Len(index_file) = 1
    /\ output_dir = "present"

----------------------------------------------------------------------------
\* generate_html as a function of the output directory, the session file
\* and the repository argument: what it leaves behind when it returns
generate_html(dir, state, sfx, file, repo_arg) ==
    LET made == mkdir(dir)
        data == read_session_file(state, sfx, file)
    IN  IF made.raised \/ data.raised THEN [raised |-> TRUE]
        ELSE LET repo == IF repo_arg = None
                         THEN detect_github_repo(data.loglines) ELSE repo_arg
                 convs == segment_all(data.loglines, [convs |-> <<>>, cur |-> <<>>])
                 pages == total_pages_of(Len(convs))
                 stats == stats_loop(convs, 0, NoStats)
                 acc == prompt_loop(convs, 0, [prompt_num |-> 0, items |-> <<>>])
                 sorted == sort_timeline(acc.items \o commit_items(stats.commits, repo),
                                         <<>>)
             IN  [raised |-> FALSE,
                  conversations |-> convs,
                  page_files |-> [p \in 1..pages |->
                                     page_content(convs, p, pages, repo)],
                  index_file |->
                      <<[prompt_num |-> acc.prompt_num,
                         total_messages |-> stats.messages,
                         total_tool_calls |-> dict_sum(stats.tool_counts),
                         total_commits |-> Len(stats.commits),
                         total_pages |-> pages,
                         index_items |-> [k \in DOMAIN sorted |-> sorted[k].item]]>>,
                  github_repo |-> repo]

\* the call of generate_html_from_session_data has the result that
\* generate_html has on a .json file with the same loglines
SameAsGenerateHtml ==
    LET g == generate_html(call.args[1], "ok", ".json", session, github_repo)
    IN  /\ ~g.raised
        /\ conversations = g.conversations
        /\ DOMAIN page_files = DOMAIN g.page_files
        /\ \A p \in DOMAIN page_files : page_files[p] = g.page_files[p]
        /\ index_file = g.index_file
        /\ module_github_repo = g.github_repo

(* C28 as stated: on the same loglines and repository argument             *)
(* generate_html_from_session_data ends with the conversations, the page   *)
(* files, the index and the module-level repository name that              *)
(* generate_html ends with.                                                *)
C28_AsStated == pc = "done" => SameAsGenerateHtml

(* C28 amended: the two agree whenever the output directory or its parent  *)
(* exists; when neither exists generate_html raises and writes nothing     *)
(* while generate_html_from_session_data creates the directory and         *)
(* generates.                                                              *)
C28_Equivalent ==
    pc = "done" =>
        IF call.args[1] = "no_parent"
        THEN generate_html(call.args[1], "ok", ".json", session, github_repo).raised
        ELSE SameAsGenerateHtml

\* two pages with a commit, linked to the repository found in the loglines,
\* written into a directory that was created for them
C28_Witness ==
    /\ pc = "done"
    /\ call.fn = "generate_html_from_session_data"
    /\ call.args[1] = "absent"
    /\ output_dir = "present"
    /\ github_repo = None
    /\ module_github_repo = "found/repo"
    /\ DOMAIN page_files = 1..2
    /\ Len(CommitItems) = 1
    /\ SameAsGenerateHtml

----------------------------------------------------------------------------
GistCall == call.fn = "create_gist" /\ call.returned

HtmlFiles == {f \in call.args[1] : f.ext = ".html"}

\* s is t without line ends before and after
Stripped(s, t) ==
    /\ \E a, b \in 0..Len(t) :
          /\ a + Len(s) + b = Len(t)
          /\ s = SubSeq(t, a + 1, a + Len(s))
          /\ \A k \in 1..a : t[k] = NL
          /\ \A k \in (Len(t) - b + 1)..Len(t) : t[k] = NL
    /\ s # <<>> => s[1] # NL /\ s[Len(s)] # NL

\* id is the last path segment of url: what stands behind the last slash
\* that has something other than slashes behind it
LastSegment(id, url) ==
    /\ \A k \in DOMAIN id : id[k] # SLASH
    /\ \E n \in 0..Len(url) :
          /\ \A k \in (Len(url) - n + 1)..Len(url) : url[k] = SLASH
          /\ Len(id) <= Len(url) - n
          /\ id = SubSeq(url, Len(url) - n - Len(id) + 1, Len(url) - n)
          /\ Len(url) - n - Len(id) >= 1 => url[Len(url) - n - Len(id)] = SLASH
          /\ id = <<>> => Len(url) = n

----------------------------------------------------------------------------
\* the command has ended: by its last statement, by an exception, or by an
\* early return
Ended == cli.at \in {"end", "failed", "returned"}

\* --open was given, or none of -o, -a and --gist
ShouldOpen ==
    cli.open_browser \/ (~cli.output /\ ~cli.output_auto /\ ~cli.gist)

\* the browser has been opened only with generation finished and, under
\* --gist, the gist created
OpenedAfterAll ==
    cli.browser # <<>> =>
        /\ pc = "done"
        /\ Len(index_file) = 1
        /\ cli.gist => /\ cli.gist_result # <<>>
                       /\ cli.gist_result[1].raised = None

(* C24 as stated: the browser is opened only after generation and any gist *)
(* upload, and when the command has ended it has been opened exactly once, *)
(* on index.html, if --open was given or none of -o, -a and --gist, and    *)
(* not at all otherwise.                                                   *)
C24_AsStated ==
    /\ OpenedAfterAll
    /\ Ended => cli.browser = IF ShouldOpen THEN <<IndexUrl>> ELSE <<>>

(* C24 amended: the browser is opened only after generation and any gist   *)
(* upload; a command that reaches its last statement has opened it exactly *)
(* once, on index.html, if --open was given or none of -o, -a and --gist,  *)
(* and not at all otherwise; a command that ends early or by an exception  *)
(* (no session, generation or gist upload failed) has not opened it.       *)
C24_Browser ==
    /\ OpenedAfterAll
    /\ Len(cli.browser) <= 1
    /\ cli.at = "end" => cli.browser = IF ShouldOpen THEN <<IndexUrl>> ELSE <<>>
    /\ cli.at \in {"failed", "returned"} => cli.browser = <<>>

\* json -o DIR --gist --open: the gist is created, then the browser opened
C24_Witness ==
    /\ cli.cmd = "json"
    /\ cli.at = "end"
    /\ cli.output /\ cli.gist /\ cli.open_browser /\ ~cli.output_auto
    /\ ~cli.auto_open
    /\ cli.gist_result[1].value[1] = <<"abc123">>
    /\ cli.browser = <<IndexUrl>>

====
